---- MODULE Spec2Model ----
(***************************************************************************)
(* Waitlist side panel of the grooming-salon browser extension: the        *)
(* groomer-assignment classifier (assignGroomerGroup, getDominantGroomer,  *)
(* parseGroomerStats) and the displayWaitlist loop that calls it.          *)
(* JavaScript strings are TLA+ strings; an absent (undefined) property is  *)
(* a field missing from the record's DOMAIN.                               *)
(***************************************************************************)
EXTENDS Integers, Sequences, FiniteSets, TLC

VARIABLES
    item,           \* the record handed to assignGroomerGroup
    result,         \* what the call returned
    pc,             \* "ready" before the call, "done" after it
    backend,        \* the waitlist the backend serves at /api/waitlist
    waitlist,       \* data.waitlist of the response displayed last
    groups,         \* the groups displayWaitlist built, as positions in waitlist
    groupCards,     \* the groomer-group blocks in waitlistContent, top to bottom
    view,           \* what waitlistContent shows
    collapsed,      \* the wl-group-{key} flags in localStorage
    loads,          \* number of responses displayed so far
    calls,          \* the <<record, result>> pairs of all assignGroomerGroup calls so far
    schedule,       \* the booked appointments of one day, per groomer
    durations,      \* the duration table handed to findConflicts
    findings,       \* the ConflictFindings findConflicts returned
    fpc,            \* "ready" before findConflicts, "done" after it
    badge,          \* the text of the extension badge
    runs,           \* the updateBadge runs started so far, each with its position and response
    relays,         \* number of relayCookies calls
    alarms,         \* the names of the alarms registered with chrome.alarms
    installed,      \* the onInstalled event has been handled
    reminderWin,    \* the nextDay parameter of the reminder window opened last, "none" if none
    lastEvent,      \* the event the service worker handled last
    activePoll,     \* the interval id in activePoll: the number of its poll, 0 for null
    polls,          \* the closures of the pollAndInjectDate calls: date, attempts, lastPickerValue, reads in flight, interval running
    started,        \* number of pollAndInjectDate calls so far
    clicks,         \* number of calendar-date clicks so far
    listeners,      \* the dates of the registered onLoaded listeners
    tab,            \* the KCApp tab: "none", "other", "loading" or "calendar"
    picker,         \* the value of the calendar's date picker, "" while there is none
    lastInj,        \* the poll of the last injection (0: none or a direct one) and a bit every injection flips
    rpc,            \* restartBackend: "idle", "posting" (awaiting /api/restart) or "polling" (interval set)
    attempts,       \* the attempts counter of restartBackend
    pollRunning,    \* whether the interval of restartBackend is running
    probes,         \* number of /api/groomers probes not settled yet
    btnText,        \* label of the Restart button, without its glyph
    btnDisabled,    \* whether the Restart button is disabled
    btnWorking,     \* whether the Restart button has the class working
    resets,         \* number of label-reset timeouts that are due
    timedOut,       \* whether "Timed out" has been shown since the last click
    cards,          \* the drafts whose card is in the panel
    spc,            \* per draft, where its sendSmsDraft call stands: "idle", "query", "inject", "post" or "done"
    sendBtn,        \* per draft, the disabled flag and the label of its Send button
    textarea,       \* per draft, the text in its textarea
    postSends,      \* per draft, the number of /api/sms/post-send requests issued
    kcapp,          \* per draft, how the last send to KCApp ended: its answer, or a mark for none, no tab or thrown
    lastAlert,      \* the text of the last alert, "" before the first
    stored,         \* the acknowledgedConflicts map in chrome.storage.sync: conflict key to timestamp
    acknowledgedConflicts,\* the in-memory acknowledgement map
    today,          \* the date new Date().toISOString() gives
    lpc,            \* loadConflicts: "idle", "reading", "writing", "fetching", "shown" or "error"
    readMap,        \* the map the last chrome.storage.sync.get returned
    setCalls,       \* number of chrome.storage.sync.set calls of the last loadAcknowledgedConflicts
    loadEnd,        \* how the last loadAcknowledgedConflicts ended: "", "ok", "read failed" or "write failed"
    conflictsData,  \* the conflicts of the last /api/conflicts response
    sections,       \* the groomer sections displayConflicts rendered, each with its items in order
    totalBadge,     \* text of the conflict-total-badge, "" while there is none
    ackSaves,       \* the chrome.storage.sync.set calls of toggleAcknowledged that have not settled
    include230,     \* whether the 2:30 checkbox is checked
    availabilityAllDays,\* the days of the last availability response that was displayed
    availabilityShownCount,\* number of those days that have been paged in
    availCards,     \* the day cards in availabilityContent, in order
    availView,      \* what availabilityContent shows: "loading", "days", "no days" or "error"
    availLoads,     \* number of /api/availability requests not answered yet
    firstDay,       \* day of the week (0 = Sunday) of day 0 of the clock
    clock,          \* the local time: day number and milliseconds since midnight
    scheduled,      \* the alarms chrome.alarms holds for the daily reminder
    alarmGets,      \* answers of chrome.alarms.get whose callbacks have not run yet
    winOpens,       \* reminder URLs waiting for the chrome.windows.getLastFocused callback
    reminderWindows,\* the reminder windows opened so far: URL, message shown, day of the alarm
    created,        \* the chrome.alarms.create calls made so far
    bkPets,         \* the option values of the select bk-pet
    bkGroomers,     \* the option values of the select bk-groomer
    bkPet,          \* value of bk-pet
    bkDate,         \* value of bk-date
    bkTime,         \* value of bk-time
    bkGroomer,      \* value of bk-groomer
    bkBtn,          \* bk-confirm-btn: disabled and text
    bkStatus,       \* text of bk-status
    bkFetches,      \* number of /api/appt/book requests in flight
    bkRequests,     \* number of /api/appt/book requests issued so far
    bkBody,         \* body of the /api/appt/book request issued last
    bkBooked,       \* number of requests answered with success
    bkHidden,       \* booking-modal is hidden
    bkHideTimer     \* the setTimeout that hides the modal is pending

vars ==
    <<item, result, pc, backend, waitlist, groups, groupCards, view, collapsed, loads, 
      calls, schedule, durations, findings, fpc, badge, runs, relays, alarms, 
      installed, reminderWin, lastEvent, activePoll, polls, started, clicks, listeners, 
      tab, picker, lastInj, rpc, attempts, pollRunning, probes, btnText, btnDisabled, 
      btnWorking, resets, timedOut, cards, spc, sendBtn, textarea, postSends, kcapp, 
      lastAlert, stored, acknowledgedConflicts, today, lpc, readMap, setCalls, loadEnd, 
      conflictsData, sections, totalBadge, ackSaves, include230, availabilityAllDays, 
      availabilityShownCount, availCards, availView, availLoads, firstDay, clock, 
      scheduled, alarmGets, winOpens, reminderWindows, created, bkPets, bkGroomers, 
      bkPet, bkDate, bkTime, bkGroomer, bkBtn, bkStatus, bkFetches, bkRequests, bkBody, 
      bkBooked, bkHidden, bkHideTimer>>

classifyVars == <<item, result, pc>>

panelVars == <<backend, waitlist, groups, groupCards, view, collapsed, loads, calls>>

findVars == <<schedule, durations, findings, fpc>>

badgeVars == <<badge, runs, relays, alarms, installed, reminderWin, lastEvent>>

pollVars == <<activePoll, polls, started, clicks, listeners, tab, picker, lastInj>>

restartVars ==
    <<rpc, attempts, pollRunning, probes, btnText, btnDisabled, btnWorking, resets, 
      timedOut>>

smsVars == <<cards, spc, sendBtn, textarea, postSends, kcapp, lastAlert>>

conflictVars ==
    <<stored, acknowledgedConflicts, today, lpc, readMap, setCalls, loadEnd, 
      conflictsData, sections, totalBadge, ackSaves>>

availVars ==
    <<include230, availabilityAllDays, availabilityShownCount, availCards, availView, 
      availLoads>>

reminderVars == <<firstDay, clock, scheduled, alarmGets, winOpens, reminderWindows, created>>

bookingVars ==
    <<bkPets, bkGroomers, bkPet, bkDate, bkTime, bkGroomer, bkBtn, bkStatus, bkFetches, 
      bkRequests, bkBody, bkBooked, bkHidden, bkHideTimer>>

\* every variable group but classifyVars
notClassifyVars ==
    <<panelVars, findVars, badgeVars, pollVars, restartVars, smsVars, conflictVars, 
      availVars, reminderVars, bookingVars>>

\* every variable group but panelVars
notPanelVars ==
    <<classifyVars, findVars, badgeVars, pollVars, restartVars, smsVars, conflictVars, 
      availVars, reminderVars, bookingVars>>

\* every variable group but findVars
notFindVars ==
    <<classifyVars, panelVars, badgeVars, pollVars, restartVars, smsVars, conflictVars, 
      availVars, reminderVars, bookingVars>>

\* every variable group but badgeVars
notBadgeVars ==
    <<classifyVars, panelVars, findVars, pollVars, restartVars, smsVars, conflictVars, 
      availVars, reminderVars, bookingVars>>

\* every variable group but pollVars
notPollVars ==
    <<classifyVars, panelVars, findVars, badgeVars, restartVars, smsVars, conflictVars, 
      availVars, reminderVars, bookingVars>>

\* every variable group but restartVars
notRestartVars ==
    <<classifyVars, panelVars, findVars, badgeVars, pollVars, smsVars, conflictVars, 
      availVars, reminderVars, bookingVars>>

\* every variable group but smsVars
notSmsVars ==
    <<classifyVars, panelVars, findVars, badgeVars, pollVars, restartVars, 
      conflictVars, availVars, reminderVars, bookingVars>>

\* every variable group but conflictVars
notConflictVars ==
    <<classifyVars, panelVars, findVars, badgeVars, pollVars, restartVars, smsVars, 
      availVars, reminderVars, bookingVars>>

\* every variable group but availVars
notAvailVars ==
    <<classifyVars, panelVars, findVars, badgeVars, pollVars, restartVars, smsVars, 
      conflictVars, reminderVars, bookingVars>>

\* every variable group but reminderVars
notReminderVars ==
    <<classifyVars, panelVars, findVars, badgeVars, pollVars, restartVars, smsVars, 
      conflictVars, availVars, bookingVars>>

\* every variable group but bookingVars
notBookingVars ==
    <<classifyVars, panelVars, findVars, badgeVars, pollVars, restartVars, smsVars, 
      conflictVars, availVars, reminderVars>>

(* ------------------------------ bounds --------------------------------- *)

\* largest total_visits / per-groomer visit count of a generated record
MaxVisits == 5

\* longest waitlist of the panel specification
MaxWaitlist == 2

\* number of responses the panel displays in one behaviour
MaxLoads == 3

\* number of updateBadge runs started in one behaviour
MaxRuns == 2

\* largest waitlist count a response carries
MaxCount == 12

\* number of calendar-date clicks in one behaviour
MaxClicks == 2

\* number of picker reads of one poll whose callback is due at the same time
MaxReadsInFlight == 2

\* number of backend probes that are unsettled at the same time
MaxProbesInFlight == 2

\* number of SMS drafts in the panel
MaxDrafts == 2

\* number of acknowledgements in storage
MaxAcks == 2

\* number of conflicts in a backend response
MaxConflicts == 3

\* number of days in a short availability response
MaxDays == 2

\* number of availability requests that are unanswered at the same time
MaxAvailLoads == 2

\* number of acknowledgement toggles whose chrome.storage.sync.set is unsettled
MaxPendingSaves == 2

\* number of conflicts displayed while acknowledgements are toggled
MaxShown == 2

\* number of /api/appt/book requests issued from one form
MaxBookings == 2

\* number of pets and of groomers offered by a booking form
MaxOptions == 1

\* number of days the clock of the daily reminder runs past its first day
MaxDaysElapsed == 1

\* number of onInstalled events the service worker handles
MaxInstalls == 2

\* number of reminder windows opened
MaxReminders == 2

(* ----------------------- JavaScript string helpers --------------------- *)

LowerLetters == {"a", "b", "c", "d", "e", "f", "g", "h", "i", "j", "k", "l", "m", "n", "o", "p", "q", "r", "s", "t", "u", "v", "w", "x", "y", "z"}

UpperLetters == {"A", "B", "C", "D", "E", "F", "G", "H", "I", "J", "K", "L", "M", "N", "O", "P", "Q", "R", "S", "T", "U", "V", "W", "X", "Y", "Z"}

Digits == <<"0", "1", "2", "3", "4", "5", "6", "7", "8", "9">>

LowerOf == [A |-> "a", B |-> "b", C |-> "c", D |-> "d", E |-> "e", F |-> "f", G |-> "g", H |-> "h", I |-> "i", J |-> "j", K |-> "k", L |-> "l", M |-> "m", N |-> "n", O |-> "o", P |-> "p", Q |-> "q", R |-> "r", S |-> "s", T |-> "t", U |-> "u", V |-> "v", W |-> "w", X |-> "x", Y |-> "y", Z |-> "z"]

\* \w of a JavaScript regular expression without the u flag: [A-Za-z0-9_]
IsWordChar(c) == c \in LowerLetters \/ c \in UpperLetters \/ c \in {Digits[i] : i \in 1..10} \/ c = "_"

\* white space stripped by String.prototype.trim and skipped by parseInt
IsSpace(c) == c \in {" ", "\t", "\n", "\r"}

CharAt(s, i) == SubSeq(s, i, i)

RECURSIVE ToLowerCase(_)
ToLowerCase(s) ==
    IF s = "" THEN ""
    ELSE LET c == CharAt(s, 1)
         IN  (IF c \in UpperLetters THEN LowerOf[c] ELSE c) \o ToLowerCase(SubSeq(s, 2, Len(s)))

\* String.prototype.includes
Includes(s, sub) ==
    \E i \in 1..(Len(s) - Len(sub) + 1) : SubSeq(s, i, i + Len(sub) - 1) = sub

\* a word character stands at position i of s (FALSE outside the string)
WordAt(s, i) == i >= 1 /\ i <= Len(s) /\ IsWordChar(CharAt(s, i))

\* the pattern without its \b anchors
TestSubstring(word, s) == Includes(s, word)

\* /\bword\b/.test(s) for a word made of word characters only
TestWord(word, s) ==
    \E i \in 1..(Len(s) - Len(word) + 1) :
        /\ SubSeq(s, i, i + Len(word) - 1) = word
        /\ ~WordAt(s, i - 1)
        /\ ~WordAt(s, i + Len(word))

\* index of the first occurrence of the one-character string sep in s, 0 if none
IndexOf(s, sep) ==
    IF \E i \in 1..Len(s) : CharAt(s, i) = sep
    THEN CHOOSE i \in 1..Len(s) : CharAt(s, i) = sep /\ \A j \in 1..(i - 1) : CharAt(s, j) # sep
    ELSE 0

\* String.prototype.split with a one-character separator
RECURSIVE Split(_, _)
Split(s, sep) ==
    LET i == IndexOf(s, sep)
    IN  IF i = 0 THEN <<s>>
        ELSE <<SubSeq(s, 1, i - 1)>> \o Split(SubSeq(s, i + 1, Len(s)), sep)

RECURSIVE TrimStart(_)
TrimStart(s) ==
    IF s # "" /\ IsSpace(CharAt(s, 1)) THEN TrimStart(SubSeq(s, 2, Len(s))) ELSE s

RECURSIVE TrimEnd(_)
TrimEnd(s) ==
    IF s # "" /\ IsSpace(CharAt(s, Len(s))) THEN TrimEnd(SubSeq(s, 1, Len(s) - 1)) ELSE s

\* String.prototype.trim
Trim(s) == TrimEnd(TrimStart(s))

DigitVal(c) == (CHOOSE i \in 1..10 : Digits[i] = c) - 1

IsDigit(c) == \E i \in 1..10 : Digits[i] = c

\* value of the longest prefix of s made of decimal digits, acc carried in
RECURSIVE DigitsPrefix(_, _)
DigitsPrefix(s, acc) ==
    IF s # "" /\ IsDigit(CharAt(s, 1))
    THEN DigitsPrefix(SubSeq(s, 2, Len(s)), 10 * acc + DigitVal(CharAt(s, 1)))
    ELSE acc

\* parseInt(parts[1]) || 0 : an absent part, NaN and 0 all give 0
ParseIntOrZero(parts) ==
    IF Len(parts) < 2 THEN 0
    ELSE LET t == TrimStart(parts[2])
             neg == t # "" /\ CharAt(t, 1) = "-"
             body == IF t # "" /\ CharAt(t, 1) \in {"-", "+"} THEN SubSeq(t, 2, Len(t)) ELSE t
         IN  IF neg THEN 0 - DigitsPrefix(body, 0) ELSE DigitsPrefix(body, 0)

\* Math.floor in the place of Math.round
FloorPercent(count, totalVisits) == (100 * count) \div totalVisits

\* Math.round(count / totalVisits * 100): nearest integer, halves upwards.
\* Exact arithmetic; the double computation agrees with it on which side of
\* 60 the percentage falls for all counts up to 2000 visits.
RoundPercent(count, totalVisits) == (200 * count + totalVisits) \div (2 * totalVisits)

(* ------------------------- record field access -------------------------- *)

Has(it, f) == f \in DOMAIN it

\* (item.f || '') for a string field
StrOr(it, f) == IF Has(it, f) THEN it[f] ELSE ""

\* !item.f for a string field: absent or empty
NoStr(it, f) == ~Has(it, f) \/ it[f] = ""

\* !item.f for a number field: absent or 0
NoNum(it, f) == ~Has(it, f) \/ it[f] = 0

\* item.total_visits, an absent count read as 0 (both are falsy where the code tests it)
NumOr0(it, f) == IF Has(it, f) THEN it[f] ELSE 0

(* ---------------------------- the classifier ---------------------------- *)

\* the value null returned by getDominantGroomer
NullKey == "null"

\* one entry of statsStr.split('|') mapped to {name, count, percent}
StatsEntry(entry, totalVisits) ==
    LET parts == Split(entry, ":")
        count == ParseIntOrZero(parts)
    IN  [name |-> Trim(parts[1]), count |-> count, percent |-> RoundPercent(count, totalVisits)]

\* parseGroomerStats(statsStr, totalVisits); "" and 0 stand for absent arguments
parseGroomerStats(statsStr, totalVisits) ==
    IF statsStr = "" \/ totalVisits = 0 THEN <<>>
    ELSE LET entries == Split(statsStr, "|")
         IN  [i \in 1..Len(entries) |-> StatsEntry(entries[i], totalVisits)]

\* e put into a sequence sorted by descending count, behind every entry that
\* does not compare after it (Array.prototype.sort is stable)
RECURSIVE InsertByCount(_, _)
InsertByCount(sorted, e) ==
    IF sorted = <<>> THEN <<e>>
    ELSE IF sorted[1].count >= e.count THEN <<sorted[1]>> \o InsertByCount(Tail(sorted), e)
    ELSE <<e>> \o sorted

\* stats.sort((a, b) => b.count - a.count)
RECURSIVE SortByCountDesc(_)
SortByCountDesc(stats) ==
    IF stats = <<>> THEN <<>>
    ELSE InsertByCount(SortByCountDesc(SubSeq(stats, 1, Len(stats) - 1)), stats[Len(stats)])

\* least percentage of the visits that makes the top groomer dominant
DominantPercent == 60

\* least number of visits for a dominant groomer
MinVisits == 3

getDominantGroomer(statsStr, totalVisits) ==
    IF statsStr = "" \/ totalVisits = 0 \/ totalVisits < MinVisits THEN NullKey
    ELSE LET stats == parseGroomerStats(statsStr, totalVisits)
         IN  IF Len(stats) = 0 THEN NullKey
             ELSE LET top == SortByCountDesc(stats)[1]
                      name == ToLowerCase(top.name)
                  IN  IF top.percent < DominantPercent THEN NullKey
                      ELSE IF Includes(name, "kumi") THEN "kumi"
                      ELSE IF Includes(name, "tomoko") THEN "tomoko"
                      ELSE IF Includes(name, "mandilyn") THEN "mandilyn"
                      ELSE NullKey

\* the four free-text fields joined with ' ' and lower-cased
AllText(it) ==
    ToLowerCase(StrOr(it, "pet_warning") \o " " \o StrOr(it, "groom_warning") \o " "
                \o StrOr(it, "client_warning") \o " " \o StrOr(it, "notes"))

\* the pattern /\blg\b/, XL forgotten
IsLargeOnly(it) == TestWord("lg", ToLowerCase(StrOr(it, "pet_type")))

\* /\b(lg|xl)\b/.test(petType)
IsLargeOrXL(it) ==
    LET petType == ToLowerCase(StrOr(it, "pet_type"))
    IN  TestWord("lg", petType) \/ TestWord("xl", petType)

Res(g, r) == [group |-> g, reason |-> r]

\* rule 1 misses the '#' marker of the pet name
HandstripRuleNoMarker(it) == ToLowerCase(StrOr(it, "service_type")) = "handstrip"

\* rule 1: service === 'handstrip' || petName.includes('#')
HandstripRule(it) ==
    ToLowerCase(StrOr(it, "service_type")) = "handstrip" \/ Includes(StrOr(it, "pet_name"), "#")

\* rule 2 for one groomer: pref.includes(key) || /\bkey\b/.test(allText)
Requested(it, key) ==
    Includes(ToLowerCase(StrOr(it, "groomer")), key) \/ TestWord(key, AllText(it))

\* rule 5 asks for both signs of a new client
NewClientRuleBoth(it) == NoStr(it, "last_completed_date") /\ NoNum(it, "total_visits")

\* rule 5: !item.last_completed_date || !item.total_visits
NewClientRule(it) == NoStr(it, "last_completed_date") \/ NoNum(it, "total_visits")

\* the function ends without its last return statement
FallbackMissing(it) == [group |-> "undefined", reason |-> "undefined"]

\* rule 6
Fallback(it) == Res("flexible", "Any groomer")

\* rule 3 tried before rule 2
assignGroomerGroupHistoryFirst(it) ==
    LET dominant == getDominantGroomer(StrOr(it, "groomer_stats"), NumOr0(it, "total_visits"))
    IN  IF HandstripRule(it) THEN Res("kumi", "Handstrip")
        ELSE IF dominant = "kumi" THEN Res("kumi", "Always with Kumi")
        ELSE IF dominant = "tomoko" THEN Res("tomoko", "Always with Tomoko")
        ELSE IF dominant = "mandilyn" THEN Res("mandilyn", "Always with Mandilyn")
        ELSE IF Requested(it, "kumi") THEN Res("kumi", "Requested Kumi")
        ELSE IF Requested(it, "tomoko") THEN Res("tomoko", "Requested Tomoko")
        ELSE IF Requested(it, "mandilyn") THEN Res("mandilyn", "Requested Mandilyn")
        ELSE IF IsLargeOrXL(it) THEN Res("mandilyn", "LG/XL dog")
        ELSE IF NewClientRule(it) THEN Res("mandilyn", "New client")
        ELSE Fallback(it)

\* rule 2 with the preference field tried for all groomers before the free text
assignGroomerGroupPrefFirst(it) ==
    LET dominant == getDominantGroomer(StrOr(it, "groomer_stats"), NumOr0(it, "total_visits"))
        pref == ToLowerCase(StrOr(it, "groomer"))
    IN  IF HandstripRule(it) THEN Res("kumi", "Handstrip")
        ELSE IF Includes(pref, "kumi") THEN Res("kumi", "Requested Kumi")
        ELSE IF Includes(pref, "tomoko") THEN Res("tomoko", "Requested Tomoko")
        ELSE IF Includes(pref, "mandilyn") THEN Res("mandilyn", "Requested Mandilyn")
        ELSE IF TestWord("kumi", AllText(it)) THEN Res("kumi", "Requested Kumi")
        ELSE IF TestWord("tomoko", AllText(it)) THEN Res("tomoko", "Requested Tomoko")
        ELSE IF TestWord("mandilyn", AllText(it)) THEN Res("mandilyn", "Requested Mandilyn")
        ELSE IF dominant = "kumi" THEN Res("kumi", "Always with Kumi")
        ELSE IF dominant = "tomoko" THEN Res("tomoko", "Always with Tomoko")
        ELSE IF dominant = "mandilyn" THEN Res("mandilyn", "Always with Mandilyn")
        ELSE IF IsLargeOrXL(it) THEN Res("mandilyn", "LG/XL dog")
        ELSE IF NewClientRule(it) THEN Res("mandilyn", "New client")
        ELSE Fallback(it)

\* rule 5 tried before rule 4
assignGroomerGroupNewClientFirst(it) ==
    LET dominant == getDominantGroomer(StrOr(it, "groomer_stats"), NumOr0(it, "total_visits"))
    IN  IF HandstripRule(it) THEN Res("kumi", "Handstrip")
        ELSE IF Requested(it, "kumi") THEN Res("kumi", "Requested Kumi")
        ELSE IF Requested(it, "tomoko") THEN Res("tomoko", "Requested Tomoko")
        ELSE IF Requested(it, "mandilyn") THEN Res("mandilyn", "Requested Mandilyn")
        ELSE IF dominant = "kumi" THEN Res("kumi", "Always with Kumi")
        ELSE IF dominant = "tomoko" THEN Res("tomoko", "Always with Tomoko")
        ELSE IF dominant = "mandilyn" THEN Res("mandilyn", "Always with Mandilyn")
        ELSE IF NewClientRule(it) THEN Res("mandilyn", "New client")
        ELSE IF IsLargeOrXL(it) THEN Res("mandilyn", "LG/XL dog")
        ELSE Fallback(it)

\* the fallback spreads the records over the groups by the state of the panel
assignGroomerGroupByPanel(it) ==
    LET dominant == getDominantGroomer(StrOr(it, "groomer_stats"), NumOr0(it, "total_visits"))
    IN  IF HandstripRule(it) THEN Res("kumi", "Handstrip")
        ELSE IF Requested(it, "kumi") THEN Res("kumi", "Requested Kumi")
        ELSE IF Requested(it, "tomoko") THEN Res("tomoko", "Requested Tomoko")
        ELSE IF Requested(it, "mandilyn") THEN Res("mandilyn", "Requested Mandilyn")
        ELSE IF dominant = "kumi" THEN Res("kumi", "Always with Kumi")
        ELSE IF dominant = "tomoko" THEN Res("tomoko", "Always with Tomoko")
        ELSE IF dominant = "mandilyn" THEN Res("mandilyn", "Always with Mandilyn")
        ELSE IF IsLargeOrXL(it) THEN Res("mandilyn", "LG/XL dog")
        ELSE IF NewClientRule(it) THEN Res("mandilyn", "New client")
        ELSE IF collapsed["mandilyn"] THEN Res("tomoko", "Any groomer")
        ELSE Fallback(it)

assignGroomerGroup(it) ==
    LET dominant == getDominantGroomer(StrOr(it, "groomer_stats"), NumOr0(it, "total_visits"))
    IN  IF HandstripRule(it) THEN Res("kumi", "Handstrip")
        ELSE IF Requested(it, "kumi") THEN Res("kumi", "Requested Kumi")
        ELSE IF Requested(it, "tomoko") THEN Res("tomoko", "Requested Tomoko")
        ELSE IF Requested(it, "mandilyn") THEN Res("mandilyn", "Requested Mandilyn")
        ELSE IF dominant = "kumi" THEN Res("kumi", "Always with Kumi")
        ELSE IF dominant = "tomoko" THEN Res("tomoko", "Always with Tomoko")
        ELSE IF dominant = "mandilyn" THEN Res("mandilyn", "Always with Mandilyn")
        ELSE IF IsLargeOrXL(it) THEN Res("mandilyn", "LG/XL dog")
        ELSE IF NewClientRule(it) THEN Res("mandilyn", "New client")
        ELSE Fallback(it)

\* first whole-word match of XS, SM, MD, LG or XL in s, upper-cased; "" if none
FirstSize(s) ==
    LET low == ToLowerCase(s)
        hit(i) == /\ SubSeq(low, i, i + 1) \in {"xs", "sm", "md", "lg", "xl"}
                  /\ ~WordAt(low, i - 1)
                  /\ ~WordAt(low, i + 2)
    IN  IF \E i \in 1..(Len(low) - 1) : hit(i)
        THEN LET k == CHOOSE i \in 1..(Len(low) - 1) : hit(i) /\ \A j \in 1..(i - 1) : ~hit(j)
                 m == SubSeq(low, k, k + 1)
             IN  CASE m = "xs" -> "XS" [] m = "sm" -> "SM" [] m = "md" -> "MD"
                   [] m = "lg" -> "LG" [] m = "xl" -> "XL"
        ELSE ""

\* extractSize(petType); "" stands for null
extractSize(it) == IF NoStr(it, "pet_type") THEN "" ELSE FirstSize(it["pet_type"])

(* ------------------------------- inputs --------------------------------- *)

\* a record without any property
NoFields == <<>>

\* the choices for one optional string property: absent, or one of the values
Opt(f, values) == {NoFields} \cup {f :> v : v \in values}

\* names that groomer_stats can carry: the three groomers and the bather
StaffNames == {"Kumi", "Tomoko", "Mandilyn", "Elmer Rivera"}

\* one "name:count" entry of groomer_stats, the format parseGroomerStats reads
FormatEntry(name, count) == name \o ":" \o ToString(count)

\* the groomer_stats strings of a pet with t completed visits: one or two
\* staff members whose counts add up to at most t
StatsFor(t) ==
    {FormatEntry(n, c) : n \in StaffNames, c \in 1..t}
    \cup {FormatEntry(q[1], q[2]) \o "|" \o FormatEntry(q[3], q[4]) :
            q \in {r \in StaffNames \X (1..t) \X StaffNames \X (1..t) :
                     r[1] # r[3] /\ r[2] + r[4] <= t}}

\* visit histories: none, a visit count alone, a count with its breakdown,
\* and breakdowns that are empty, lack a count or lack the total
Histories ==
    {NoFields}
    \cup {"total_visits" :> t : t \in 0..MaxVisits}
    \cup UNION {{("total_visits" :> t) @@ ("groomer_stats" :> st) : st \in StatsFor(t)} : t \in 1..MaxVisits}
    \cup {("total_visits" :> t) @@ ("groomer_stats" :> st) :
            t \in {0, MaxVisits}, st \in {"", "Kumi", " Tomoko : " \o ToString(MaxVisits) \o " ", "Kumi:x|:|"}}
    \cup {"groomer_stats" :> "Kumi:3"}
    \cup {("total_visits" :> 42) @@ ("groomer_stats" :> st) :
            st \in {"Tomoko:25|Kumi:17", "Tomoko:24|Kumi:18", "Elmer Rivera:25|Kumi:17"}}

\* a few histories, one for each outcome of the history rules
CoarseHistories ==
    { NoFields,
      "total_visits" :> 0,
      ("total_visits" :> 4) @@ ("groomer_stats" :> "Kumi:4"),
      ("total_visits" :> 5) @@ ("groomer_stats" :> "Tomoko:3|Mandilyn:2"),
      ("total_visits" :> 5) @@ ("groomer_stats" :> "Kumi:2|Tomoko:2"),
      ("total_visits" :> 5) @@ ("groomer_stats" :> "Elmer Rivera:4|Kumi:1") }

LastDates == Opt("last_completed_date", {"2025-03-14"})

\* every combination of a few values of each property
CoarseItems ==
    { a @@ b @@ c @@ d @@ e @@ f @@ g :
        a \in Opt("service_type", {"Handstrip", "Full Service"}),
        b \in {"pet_name" :> "Rex", "pet_name" :> "Bo #", "pet_name" :> "Ace*"},
        c \in Opt("groomer", {"Tomoko", "KUMI"}),
        d \in Opt("notes", {"wants Mandilyn", "Tomokofan"}),
        e \in {"pet_type" :> "Dog MD", "pet_type" :> "Dog - XL"},
        f \in CoarseHistories,
        g \in LastDates }

\* the preference and free-text properties in detail
TextItems ==
    { a @@ b @@ c @@ d @@ e @@ f :
        a \in Opt("groomer", {"", "Tomoko", "KUMI S.", "mandilyn", "Tomokofan", "Josh Han"}),
        b \in Opt("pet_warning", {"bites", "Kumi only", "see ku"}),
        c \in Opt("groom_warning", {"mi matted", "no MANDILYN"}),
        d \in Opt("client_warning", {"prefers tomoko.", "late"}),
        e \in Opt("notes", {"", "ASAP", "Tomokofan", "mandilyn_2 kumiko", "Tomoko/Kumi ok",
                            "ask Mandilyn, then tomoko"}),
        f \in { ("service_type" :> "Full Service") @@ ("pet_name" :> "Rex") @@ ("pet_type" :> "Dog SM")
                @@ ("total_visits" :> 4) @@ ("groomer_stats" :> "Mandilyn:2|Kumi:2")
                @@ ("last_completed_date" :> "2025-03-14") } }

\* the visit history, size and tenure properties in detail
HistoryItems ==
    { a @@ b @@ c @@ d :
        a \in Opt("service_type", {"Bath"}),
        b \in Opt("pet_type", {"Dog MD", "LG", "Dog XLarge"}),
        c \in Histories,
        d \in LastDates }

Items == CoarseItems \cup TextItems \cup HistoryItems

(* ----------------------- classifier specification ----------------------- *)

\* result before assignGroomerGroup has returned
NoResult == [group |-> "none", reason |-> "none"]

NoGroups == [kumi |-> <<>>, tomoko |-> <<>>, mandilyn |-> <<>>, flexible |-> <<>>]

GroupKeys == <<"kumi", "tomoko", "mandilyn", "flexible">>

NoneCollapsed == [k \in {GroupKeys[i] : i \in 1..4} |-> FALSE]

\* the side panel before the first response
PanelIdle ==
    /\ waitlist = <<>>
    /\ groups = NoGroups
    /\ groupCards = <<>>
    /\ view = "loading"
    /\ collapsed = NoneCollapsed
    /\ loads = 0
    /\ calls = {}

\* the classifier when another specification runs
ClassifyIdle ==
    /\ item = NoFields
    /\ result = NoResult
    /\ pc = "idle"

\* the side panel when another specification runs
PanelOff == backend = <<>> /\ PanelIdle

\* the conflict detector when another specification runs
FindIdle ==
    /\ schedule = <<>>
    /\ durations = <<>>
    /\ findings = <<>>
    /\ fpc = "idle"

\* the service worker when another specification runs
BadgeIdle ==
    /\ badge = ""
    /\ runs = <<>>
    /\ relays = 0
    /\ alarms = {}
    /\ installed = FALSE
    /\ reminderWin = "none"
    /\ lastEvent = "none"

\* the calendar jump when another specification runs
PollIdle ==
    /\ activePoll = 0
    /\ polls = <<>>
    /\ started = 0
    /\ clicks = 0
    /\ listeners = <<>>
    /\ tab = "none"
    /\ picker = ""
    /\ lastInj = [poll |-> 0, flip |-> FALSE]

\* the Restart button before it is clicked
RestartIdle ==
    /\ rpc = "idle"
    /\ attempts = 0
    /\ pollRunning = FALSE
    /\ probes = 0
    /\ btnText = "Restart Backend"
    /\ btnDisabled = FALSE
    /\ btnWorking = FALSE
    /\ resets = 0
    /\ timedOut = FALSE

\* the SMS panel without drafts
SmsIdle ==
    /\ cards = {}
    /\ spc = <<>>
    /\ sendBtn = <<>>
    /\ textarea = <<>>
    /\ postSends = <<>>
    /\ kcapp = <<>>
    /\ lastAlert = ""

\* the conflicts tab before it is opened
ConflictsIdle ==
    /\ stored = <<>>
    /\ acknowledgedConflicts = <<>>
    /\ today = ""
    /\ lpc = "idle"
    /\ readMap = <<>>
    /\ setCalls = 0
    /\ loadEnd = ""
    /\ conflictsData = <<>>
    /\ sections = <<>>
    /\ totalBadge = ""
    /\ ackSaves = <<>>

\* the availability tab before a groomer is chosen
AvailIdle ==
    /\ include230 = FALSE
    /\ availabilityAllDays = <<>>
    /\ availabilityShownCount = 0
    /\ availCards = <<>>
    /\ availView = "empty"
    /\ availLoads = 0

\* the daily reminder before the service worker has handled an event
ReminderIdle ==
    /\ firstDay = 0
    /\ clock = [d |-> 0, t |-> 0]
    /\ scheduled = {}
    /\ alarmGets = <<>>
    /\ winOpens = <<>>
    /\ reminderWindows = <<>>
    /\ created = <<>>

\* the booking modal before a form is rendered
BookingIdle ==
    /\ bkPets = <<>>
    /\ bkGroomers = <<>>
    /\ bkPet = ""
    /\ bkDate = ""
    /\ bkTime = ""
    /\ bkGroomer = ""
    /\ bkBtn = [disabled |-> FALSE, text |-> ""]
    /\ bkStatus = ""
    /\ bkFetches = 0
    /\ bkRequests = 0
    /\ bkBody = [pet_id |-> 0, date |-> "", time |-> "", groomer_id |-> 0]
    /\ bkBooked = 0
    /\ bkHidden = TRUE
    /\ bkHideTimer = FALSE

\* every variable group but g is idle
IdleBut(g) ==
    /\ IF g = "classify" THEN TRUE ELSE ClassifyIdle
    /\ IF g = "panel" THEN TRUE ELSE PanelOff
    /\ IF g = "find" THEN TRUE ELSE FindIdle
    /\ IF g = "badge" THEN TRUE ELSE BadgeIdle
    /\ IF g = "poll" THEN TRUE ELSE PollIdle
    /\ IF g = "restart" THEN TRUE ELSE RestartIdle
    /\ IF g = "sms" THEN TRUE ELSE SmsIdle
    /\ IF g = "conflicts" THEN TRUE ELSE ConflictsIdle
    /\ IF g = "avail" THEN TRUE ELSE AvailIdle
    /\ IF g = "reminder" THEN TRUE ELSE ReminderIdle
    /\ IF g = "booking" THEN TRUE ELSE BookingIdle

Init ==
    /\ item \in Items
    /\ result = NoResult
    /\ pc = "ready"
    /\ IdleBut("classify")

\* one call assignGroomerGroup(item)
Classify ==
    /\ pc = "ready"
    /\ result' = assignGroomerGroup(item)
    /\ pc' = "done"
    /\ UNCHANGED <<item, notClassifyVars>>

Next == Classify

Spec == Init /\ [][Next]_vars

(* ------------------------- side panel specification -------------------- *)

\* waitlist records, one or two for each rule of the classifier
SampleItems ==
    { ("pet_name" :> "Bo #") @@ ("service_type" :> "Full Service") @@ ("groomer" :> "Tomoko"),
      ("pet_name" :> "Rex") @@ ("service_type" :> "Bath") @@ ("notes" :> "ask Mandilyn, then tomoko"),
      ("pet_name" :> "Ace*") @@ ("total_visits" :> 5) @@ ("groomer_stats" :> "Kumi:3|Tomoko:2")
          @@ ("last_completed_date" :> "2025-03-14"),
      ("pet_name" :> "Moose") @@ ("pet_type" :> "Dog - XL") @@ ("total_visits" :> 0),
      ("pet_name" :> "Pip") @@ ("pet_type" :> "Dog SM"),
      ("pet_name" :> "Lulu") @@ ("pet_type" :> "Dog MD") @@ ("total_visits" :> 4)
          @@ ("groomer_stats" :> "Elmer Rivera:3|Kumi:1") @@ ("last_completed_date" :> "2025-03-14") }

\* the sequences over S of length 0..n
RECURSIVE SeqsUpTo(_, _)
SeqsUpTo(S, n) ==
    IF n = 0 THEN {<<>>}
    ELSE LET shorter == SeqsUpTo(S, n - 1)
         IN  shorter \cup {Append(q, x) : q \in {r \in shorter : Len(r) = n - 1}, x \in S}

InitPanel ==
    /\ backend \in SeqsUpTo(SampleItems, MaxWaitlist)
    /\ PanelIdle
    /\ IdleBut("panel")

\* the forEach of displayWaitlist from position i on: the records with their
\* _groupReason set, the groups, and the calls made
RECURSIVE DisplayLoop(_, _, _, _)
DisplayLoop(items, i, grp, made) ==
    IF i > Len(items) THEN [waitlist |-> items, groups |-> grp, calls |-> made]
    ELSE LET r == assignGroomerGroup(items[i])
         IN  DisplayLoop([items EXCEPT ![i] = ("_groupReason" :> r.reason) @@ items[i]],
                         i + 1,
                         [grp EXCEPT ![r.group] = Append(@, i)],
                         made \cup {<<items[i], r>>})

\* keys and labels of the groups in the order they are rendered (the labels
\* without their icons)
groupOrder ==
    << [key |-> "kumi", label |-> "Kumi"], [key |-> "tomoko", label |-> "Tomoko"],
       [key |-> "mandilyn", label |-> "Mandilyn"], [key |-> "flexible", label |-> "Any Groomer"] >>

\* `${items.length} dog${items.length !== 1 ? 's' : ''}`
DogsText(n) == ToString(n) \o " dog" \o (IF n # 1 THEN "s" ELSE "")

\* the block of one group
GroupCard(order, grp) ==
    [key |-> order.key, label |-> order.label, count |-> DogsText(Len(grp[order.key])),
     items |-> grp[order.key]]

\* the mutant renders a block for an empty group as well
RenderGroupsWithEmpty(order, grp) ==
    [n \in 1..Len(order) |-> GroupCard(order[n], grp)]

\* groupOrder.forEach: a block for every group that has items
RenderGroups(order, grp) ==
    SelectSeq([n \in 1..Len(order) |-> GroupCard(order[n], grp)], LAMBDA c : c.items # <<>>)

\* loadWaitlist with an OK response: displayWaitlist(data)
LoadWaitlistOk ==
    /\ pc = "idle"
    /\ loads < MaxLoads
    /\ loads' = loads + 1
    /\ IF Len(backend) = 0
       THEN /\ view' = "empty"
            /\ waitlist' = <<>>
            /\ groups' = NoGroups
            /\ groupCards' = <<>>
            /\ calls' = calls
       ELSE LET d == DisplayLoop(backend, 1, NoGroups, {})
            IN  /\ view' = "list"
                /\ waitlist' = d.waitlist
                /\ groups' = d.groups
                /\ groupCards' = RenderGroups(groupOrder, d.groups)
                /\ calls' = calls \cup d.calls
    /\ UNCHANGED <<notPanelVars, backend, collapsed>>

\* loadWaitlist when fetch throws or the response is not OK: showError
LoadWaitlistFail ==
    /\ pc = "idle"
    /\ view' = "error"
    /\ groupCards' = <<>>
    /\ UNCHANGED <<notPanelVars, backend, waitlist, groups, collapsed, loads, calls>>

\* the change handler of the collapse checkbox of a rendered group
ToggleGroup(key) ==
    /\ pc = "idle"
    /\ view = "list"
    /\ groups[key] # <<>>
    /\ collapsed' = [collapsed EXCEPT ![key] = ~@]
    /\ UNCHANGED <<notPanelVars, backend, waitlist, groups, groupCards, view, loads, calls>>

\* the backend's waitlist is served in another order
BackendReorder ==
    /\ pc = "idle"
    /\ Len(backend) >= 2
    /\ backend' = Tail(backend) \o <<Head(backend)>>
    /\ backend' # backend
    /\ UNCHANGED <<notPanelVars, waitlist, groups, groupCards, view, collapsed, loads, calls>>

NextPanel ==
    \/ LoadWaitlistOk
    \/ LoadWaitlistFail
    \/ \E k \in 1..4 : ToggleGroup(GroupKeys[k])
    \/ BackendReorder

SpecPanel == InitPanel /\ [][NextPanel]_vars

(* ------------------------ slot conflict detector ------------------------ *)

\* minutes after midnight of hh:mm
Minutes(hh, mm) == 60 * hh + mm

\* the nominal slot times 08:30, 10:00, 11:30, 13:30 and the reserve slot 14:30
NominalSlots == <<Minutes(8, 30), Minutes(10, 0), Minutes(11, 30), Minutes(13, 30), Minutes(14, 30)>>

\* length in minutes of the block the calendar shows for every appointment
NominalBlock == 90

\* the key of the duration table for an appointment
DurationKey(a) ==
    IF a.service = "BathOnly" THEN "bathOnly"
    ELSE IF a.size \in {"XS", "SM"} THEN "fullServiceXSSM"
    ELSE "fullServiceMDLG"

\* the real window of a booked appointment: [start, end) in minutes
RealWindow(a, config) == [start |-> a.time, end |-> a.time + config[DurationKey(a)]]

\* an appointment is taken to last the nominal 90 minutes
OverlapsNominal(slot, a, config) == slot < a.time + NominalBlock /\ a.time < slot + NominalBlock

\* the 90-minute block starting at slot overlaps the real window of a
Overlaps(slot, a, config) ==
    LET w == RealWindow(a, config)
    IN  slot < w.end /\ w.start < slot + NominalBlock

\* the slot is not booked for the groomer whose appointments are appts
SlotFree(slot, appts) == \A i \in 1..Len(appts) : appts[i].time # slot

\* the findings of one groomer for the slots from position k on
RECURSIVE GroomerFindings(_, _, _, _)
GroomerFindings(g, appts, config, k) ==
    IF k > Len(NominalSlots) THEN <<>>
    ELSE LET slot == NominalSlots[k]
             over == SelectSeq(appts, LAMBDA a : Overlaps(slot, a, config))
             rest == GroomerFindings(g, appts, config, k + 1)
         IN  IF SlotFree(slot, appts) /\ over # <<>>
             THEN <<[groomerId |-> g, slotTime |-> slot, overlappingAppointments |-> over]>> \o rest
             ELSE rest

GroomerIds == <<"Kumi", "Tomoko">>

\* findConflicts(schedule, config) for one day: the findings of every groomer
RECURSIVE FindFrom(_, _, _)
FindFrom(sched, config, gi) ==
    IF gi > Len(GroomerIds) THEN <<>>
    ELSE GroomerFindings(GroomerIds[gi], sched[GroomerIds[gi]], config, 1)
         \o FindFrom(sched, config, gi + 1)

findConflicts(sched, config) == FindFrom(sched, config, 1)

\* duration tables in minutes
DurationTables ==
    { [fullServiceXSSM |-> 120, fullServiceMDLG |-> 150, bathOnly |-> 75],
      [fullServiceXSSM |-> 120, fullServiceMDLG |-> 180, bathOnly |-> 90] }

\* what can be booked at one start time: nothing, or one appointment
BookingsAt(t) ==
    {<<>>} \cup {<<[time |-> t, service |-> k[1], size |-> k[2]]>> :
                    k \in {<<"FullService", "MD">>, <<"FullService", "SM">>, <<"BathOnly", "MD">>}}

\* the days of the first groomer: bookings at the four nominal slots and at 09:00
KumiDays ==
    { a \o b \o c \o d \o e :
        a \in BookingsAt(Minutes(8, 30)), b \in BookingsAt(Minutes(9, 0)), c \in BookingsAt(Minutes(10, 0)),
        d \in BookingsAt(Minutes(11, 30)), e \in BookingsAt(Minutes(13, 30)) }

\* the days of the second groomer
TomokoDays ==
    { <<>>,
      <<[time |-> Minutes(8, 30), service |-> "FullService", size |-> "MD"]>>,
      <<[time |-> Minutes(10, 0), service |-> "BathOnly", size |-> "MD"],
        [time |-> Minutes(13, 30), service |-> "FullService", size |-> "SM"]>> }

InitFind ==
    /\ schedule \in {[Kumi |-> k, Tomoko |-> t] : k \in KumiDays, t \in TomokoDays}
    /\ durations \in DurationTables
    /\ findings = <<>>
    /\ fpc = "ready"
    /\ IdleBut("find")

\* one call findConflicts(schedule, durations)
FindConflicts ==
    /\ fpc = "ready"
    /\ findings' = findConflicts(schedule, durations)
    /\ fpc' = "done"
    /\ UNCHANGED <<schedule, durations, notFindVars>>

NextFind == FindConflicts

SpecFind == InitFind /\ [][NextFind]_vars

(* --------------------------- service worker ----------------------------- *)

PRINT_REMINDER_ALARM == "dailyPrintReminder"

\* the bodies of an OK response: an object with a count, an object without
\* one (count 0 stands for the missing property), the JSON value null, and
\* text that is not JSON
Bodies ==
    {[kind |-> "count", count |-> n] : n \in {0, 1, 9, 10, MaxCount}}
    \cup {[kind |-> k, count |-> 0] : k \in {"nocount", "null", "invalid"}}

NoBody == [kind |-> "none", count |-> 0]

\* the badge shows the count also when it is 0
BadgeTextWithZero(count) == ToString(count)

\* count > 0 ? count.toString() : ''
BadgeText(count) == IF count > 0 THEN ToString(count) ELSE ""

\* a new updateBadge run, at its first await
NewRun == [pc |-> "config", outcome |-> "pending", body |-> NoBody]

\* updateBadge() is called: the run starts with chrome.storage.sync.get
StartRun(rs) == Append(rs, NewRun)

\* the alarm listener compares the name with another string
AlarmStartsRunNever(name) == name = "updatebadge"

\* alarm.name === 'updateBadge'
AlarmStartsRun(name) == name = "updateBadge"

InitBadge ==
    /\ badge \in {"", "3"}
    /\ runs = <<>>
    /\ relays = 0
    /\ alarms = {"updateBadge"}
    /\ installed = FALSE
    /\ reminderWin = "none"
    /\ lastEvent = "none"
    /\ IdleBut("badge")

\* chrome.action.onClicked: open the side panel, updateBadge()
OnClicked ==
    /\ Len(runs) < MaxRuns
    /\ runs' = StartRun(runs)
    /\ lastEvent' = "clicked"
    /\ UNCHANGED <<badge, relays, alarms, installed, reminderWin, notBadgeVars>>

\* chrome.runtime.onInstalled: updateBadge(), relayCookies(), schedulePrintReminder()
OnInstalled ==
    /\ ~installed
    /\ Len(runs) < MaxRuns
    /\ installed' = TRUE
    /\ runs' = StartRun(runs)
    /\ relays' = relays + 1
    /\ alarms' = alarms \cup {PRINT_REMINDER_ALARM}
    /\ lastEvent' = "installed"
    /\ UNCHANGED <<badge, reminderWin, notBadgeVars>>

\* the mutant opens the window on every day of the week
showPrintReminderEveryDay(day, win) ==
    IF day = 6 THEN "Tuesday" ELSE "tomorrow"

\* showPrintReminder() on day-of-week day: the window it opens, if any
showPrintReminder(day, win) ==
    IF day = 0 \/ day = 1 THEN win
    ELSE IF day = 6 THEN "Tuesday" ELSE "tomorrow"

\* chrome.alarms.onAlarm for the alarm called name, on day-of-week day
OnAlarm(name, day) ==
    /\ name \in alarms
    /\ AlarmStartsRun(name) => Len(runs) < MaxRuns
    /\ runs' = IF AlarmStartsRun(name) THEN StartRun(runs) ELSE runs
    /\ relays' = IF AlarmStartsRun(name) THEN relays + 1 ELSE relays
    /\ reminderWin' = IF name = PRINT_REMINDER_ALARM THEN showPrintReminder(day, reminderWin) ELSE reminderWin
    /\ lastEvent' = "alarm:" \o name
    /\ UNCHANGED <<badge, alarms, installed, notBadgeVars>>

\* run r finishes with the given outcome and badge text
FinishRun(r, outcome, text) ==
    /\ runs' = [runs EXCEPT ![r].pc = "done", ![r].outcome = outcome]
    /\ badge' = text
    /\ lastEvent' = "callback"
    /\ UNCHANGED <<relays, alarms, installed, reminderWin, notBadgeVars>>

\* chrome.storage.sync.get resolves: the run goes on to fetch(backendUrl)
ConfigResolved(r) ==
    /\ r \in 1..Len(runs) /\ runs[r].pc = "config"
    /\ runs' = [runs EXCEPT ![r].pc = "fetch"]
    /\ lastEvent' = "callback"
    /\ UNCHANGED <<badge, relays, alarms, installed, reminderWin, notBadgeVars>>

\* chrome.storage.sync.get rejects: catch, badge cleared
ConfigRejected(r) ==
    /\ r \in 1..Len(runs) /\ runs[r].pc = "config"
    /\ FinishRun(r, "error", "")

\* fetch resolves with an OK response carrying body: the run goes on to response.json()
FetchOk(r, body) ==
    /\ r \in 1..Len(runs) /\ runs[r].pc = "fetch"
    /\ runs' = [runs EXCEPT ![r].pc = "json", ![r].body = body]
    /\ lastEvent' = "callback"
    /\ UNCHANGED <<badge, relays, alarms, installed, reminderWin, notBadgeVars>>

\* fetch resolves with a response that is not OK: nothing is done
FetchNotOk(r) ==
    /\ r \in 1..Len(runs) /\ runs[r].pc = "fetch"
    /\ FinishRun(r, "notok", badge)

\* fetch rejects: catch, badge cleared
FetchThrows(r) ==
    /\ r \in 1..Len(runs) /\ runs[r].pc = "fetch"
    /\ FinishRun(r, "error", "")

\* response.json() settles: text that is not JSON rejects it and reading
\* data.count of null throws, both end in the catch; otherwise the badge is set
JsonSettled(r) ==
    /\ r \in 1..Len(runs) /\ runs[r].pc = "json"
    /\ IF runs[r].body.kind \in {"invalid", "null"}
       THEN FinishRun(r, "error", "")
       ELSE FinishRun(r, "ok", BadgeText(runs[r].body.count))

NextBadge ==
    \/ OnClicked
    \/ OnInstalled
    \/ \E name \in {"updateBadge", PRINT_REMINDER_ALARM} : \E day \in 0..6 : OnAlarm(name, day)
    \/ \E r \in 1..MaxRuns :
          \/ ConfigResolved(r)
          \/ ConfigRejected(r)
          \/ \E body \in Bodies : FetchOk(r, body)
          \/ FetchNotOk(r)
          \/ FetchThrows(r)
          \/ JsonSettled(r)

SpecBadge == InitBadge /\ [][NextBadge]_vars

(* ------------------------ calendar date injection ----------------------- *)

\* the dates of the availability slots that can be clicked
ClickDates == {"2026-03-10", "2026-03-11"}

\* the date the calendar restores when it is reloaded
RestoredDate == "2026-03-02"

\* what a read of the picker can return: "" for null (no picker, no value or
\* no calendar view yet), else the picker's value
PickerValues == {"", RestoredDate} \cup ClickDates

\* number of ticks after which a poll gives up
MaxAttempts == 30

\* the closure of a new pollAndInjectDate call
NewPoll(dateStr) ==
    [date |-> dateStr, attempts |-> 0, last |-> "", prev |-> "", out |-> 0, running |-> TRUE]

\* the first value read counts as stable
StableAtOnce(pickerValue, lastPickerValue) == TRUE

\* the picker has stabilised: the value read is the one read before
Stable(pickerValue, lastPickerValue) == pickerValue = lastPickerValue

\* the closures as far as they can still be read: a cleared interval never
\* ticks again, so its attempts counter is dropped unless it reached the cap,
\* and once its last read has called back so is the value it remembers
Collect(ps) ==
    [i \in 1..Len(ps) |->
        IF ps[i].running THEN ps[i]
        ELSE [ps[i] EXCEPT !.attempts = IF @ > MaxAttempts THEN @ ELSE 0,
                           !.last = IF ps[i].out = 0 THEN "" ELSE @,
                           !.prev = IF ps[i].out = 0 THEN "" ELSE @]]

\* clearInterval forgotten: every interval keeps running
ClearNothing(ps) == ps

\* clearInterval(activePoll): the interval whose id activePoll holds stops
ClearActive(ps) ==
    IF activePoll = 0 THEN ps ELSE [ps EXCEPT ![activePoll].running = FALSE]

\* pollAndInjectDate(tabId, dateStr) up to the return of setInterval, from
\* closures ps: the closures afterwards
StartPoll(ps, dateStr) == Append(ps, NewPoll(dateStr))

\* pollAndInjectDate for each date of ds in turn, every call clearing the
\* interval of the call before it
RECURSIVE StartPolls(_, _)
StartPolls(ps, ds) ==
    IF ds = <<>> THEN ps
    ELSE StartPolls(StartPoll([i \in 1..Len(ps) |-> [ps[i] EXCEPT !.running = FALSE]], Head(ds)), Tail(ds))

InitPoll ==
    /\ activePoll = 0
    /\ polls = <<>>
    /\ started = 0
    /\ clicks = 0
    /\ listeners = <<>>
    /\ tab \in {"none", "other", "calendar"}
    /\ picker = IF tab = "calendar" THEN RestoredDate ELSE ""
    /\ lastInj = [poll |-> 0, flip |-> FALSE]
    /\ IdleBut("poll")

\* a click on an availability slot, openCalendarOnDate(date), when the
\* callback of chrome.tabs.query finds a tab with the calendar URL: the date is
\* injected directly; without a picker element nothing is done
ClickFindsCalendar(date, hasPicker) ==
    /\ clicks < MaxClicks
    /\ clicks' = clicks + 1
    /\ tab \in {"calendar", "loading"}
    /\ tab = "calendar" => hasPicker
    /\ picker' = IF hasPicker THEN date ELSE picker
    /\ lastInj' = IF hasPicker THEN [poll |-> 0, flip |-> ~lastInj.flip] ELSE lastInj
    /\ UNCHANGED <<activePoll, polls, started, listeners, tab, notPollVars>>

\* openCalendarOnDate(date) when the callback finds a KCApp tab on another
\* page, or none (a tab is created): navigateAndWait clears the active poll,
\* registers the onLoaded listener and the tab loads the calendar
ClickNavigates(date) ==
    /\ clicks < MaxClicks
    /\ clicks' = clicks + 1
    /\ tab \in {"other", "none"}
    /\ polls' = Collect(ClearActive(polls))
    /\ activePoll' = 0
    /\ listeners' = Append(listeners, date)
    /\ tab' = "loading"
    /\ picker' = ""
    /\ UNCHANGED <<started, lastInj, notPollVars>>

\* chrome.tabs.onUpdated with status complete: every onLoaded listener removes
\* itself and calls pollAndInjectDate
TabLoaded ==
    /\ tab = "loading"
    /\ tab' = "calendar"
    /\ polls' = IF listeners = <<>> THEN polls ELSE Collect(StartPolls(polls, listeners))
    /\ started' = started + Len(listeners)
    /\ activePoll' = IF listeners = <<>> THEN activePoll ELSE started + Len(listeners)
    /\ listeners' = <<>>
    /\ UNCHANGED <<clicks, picker, lastInj, notPollVars>>

\* the calendar page loads, restores a date or loses its picker
PageChanges(v) ==
    /\ tab \in {"loading", "calendar"}
    /\ v \in {"", RestoredDate}
    /\ v # picker
    /\ picker' = v
    /\ UNCHANGED <<activePoll, polls, started, clicks, listeners, tab, lastInj, notPollVars>>

\* the user opens another KCApp page in the tab
LeaveCalendar ==
    /\ tab = "calendar"
    /\ tab' = "other"
    /\ picker' = ""
    /\ UNCHANGED <<activePoll, polls, started, clicks, listeners, lastInj, notPollVars>>

\* the interval callback of poll p
Tick(p) ==
    /\ p \in 1..Len(polls)
    /\ polls[p].running
    /\ polls[p].attempts + 1 > MaxAttempts \/ polls[p].out < MaxReadsInFlight
    /\ IF polls[p].attempts + 1 > MaxAttempts
       THEN /\ polls' = Collect(ClearActive([polls EXCEPT ![p].attempts = @ + 1]))
            /\ activePoll' = 0
       ELSE /\ polls' = [polls EXCEPT ![p].attempts = @ + 1, ![p].out = @ + 1]
            /\ activePoll' = activePoll
    /\ UNCHANGED <<started, clicks, listeners, tab, picker, lastInj, notPollVars>>

\* what a read of the picker for a poll gives now: null ("") unless the tab
\* shows the calendar view and the picker has a value
ReadResult == IF tab = "calendar" THEN picker ELSE ""

\* the callback of a picker read of poll p, the read returning the picker's value
ReadCallback(p) ==
    /\ p \in 1..Len(polls)
    /\ polls[p].out > 0
    /\ LET pickerValue == ReadResult
           after == [polls EXCEPT ![p].out = @ - 1,
                                  ![p].prev = IF pickerValue = "" THEN @ ELSE pickerValue]
       IN  IF pickerValue = "" THEN
                /\ polls' = Collect(after)
                /\ UNCHANGED <<activePoll, picker, lastInj>>
           ELSE IF Stable(pickerValue, polls[p].last) THEN
                /\ polls' = Collect(ClearActive(after))
                /\ activePoll' = 0
                /\ picker' = polls[p].date
                /\ lastInj' = [poll |-> p, flip |-> ~lastInj.flip]
           ELSE /\ polls' = Collect([after EXCEPT ![p].last = pickerValue])
                /\ UNCHANGED <<activePoll, picker, lastInj>>
    /\ UNCHANGED <<started, clicks, listeners, tab, notPollVars>>

NextPoll ==
    \/ \E d \in ClickDates, b \in BOOLEAN : ClickFindsCalendar(d, b)
    \/ \E d \in ClickDates : ClickNavigates(d)
    \/ TabLoaded
    \/ \E v \in PickerValues : PageChanges(v)
    \/ LeaveCalendar
    \/ \E p \in 1..MaxClicks : Tick(p) \/ ReadCallback(p)

SpecPoll == InitPoll /\ [][NextPoll]_vars

(* --------------------------- backend restart ---------------------------- *)

\* number of failed probes after which restartBackend gives up
MaxProbes == 30

InitRestart == RestartIdle /\ IdleBut("restart")

\* a click on the enabled Restart button, once the restart before it has
\* settled: restartBackend up to its await of POST /api/restart
ClickRestart ==
    /\ ~btnDisabled
    /\ rpc = "idle" \/ (rpc = "polling" /\ ~pollRunning /\ probes = 0 /\ resets = 0)
    /\ rpc' = "posting"
    /\ btnText' = "Restarting"
    /\ btnWorking' = TRUE
    /\ btnDisabled' = TRUE
    /\ timedOut' = FALSE
    /\ UNCHANGED <<attempts, pollRunning, probes, resets, notRestartVars>>

\* POST /api/restart resolves or rejects (the server drops the connection):
\* the rest of restartBackend sets the interval
RestartPosted ==
    /\ rpc = "posting"
    /\ rpc' = "polling"
    /\ attempts' = 0
    /\ pollRunning' = TRUE
    /\ UNCHANGED <<probes, btnText, btnDisabled, btnWorking, resets, timedOut, notRestartVars>>

\* the interval callback up to its await: one more probe of /api/groomers
ProbeTick ==
    /\ pollRunning
    /\ probes < MaxProbesInFlight
    /\ attempts' = attempts + 1
    /\ probes' = probes + 1
    /\ UNCHANGED <<rpc, pollRunning, btnText, btnDisabled, btnWorking, resets, timedOut, notRestartVars>>

\* a probe resolves: the interval is cleared, "Backend ready" is shown and the
\* label reset is set for 2 s later
ProbeResolves ==
    /\ probes > 0
    /\ probes' = probes - 1
    /\ pollRunning' = FALSE
    /\ btnText' = "Backend ready"
    /\ btnWorking' = FALSE
    /\ resets' = resets + 1
    /\ UNCHANGED <<rpc, attempts, btnDisabled, timedOut, notRestartVars>>

\* a probe rejects: from the 30th attempt on the interval is cleared, "Timed
\* out" is shown and the label reset is set for 3 s later
ProbeRejects ==
    /\ probes > 0
    /\ probes' = probes - 1
    /\ IF attempts >= MaxProbes
       THEN /\ pollRunning' = FALSE
            /\ btnText' = "Timed out"
            /\ btnWorking' = FALSE
            /\ resets' = resets + 1
            /\ timedOut' = TRUE
       ELSE UNCHANGED <<pollRunning, btnText, btnWorking, resets, timedOut>>
    /\ UNCHANGED <<rpc, attempts, btnDisabled, notRestartVars>>

\* a label-reset timeout fires
ResetLabel ==
    /\ resets > 0
    /\ resets' = resets - 1
    /\ btnText' = "Restart Backend"
    /\ btnDisabled' = FALSE
    /\ UNCHANGED <<rpc, attempts, pollRunning, probes, btnWorking, timedOut, notRestartVars>>

NextRestart ==
    \/ ClickRestart
    \/ RestartPosted
    \/ ProbeTick
    \/ ProbeResolves
    \/ ProbeRejects
    \/ ResetLabel

SpecRestart == InitRestart /\ [][NextRestart]_vars

(* ----------------------------- SMS drafts -------------------------------- *)

\* the drafts renderSmsDrafts shows
Drafts == 1..MaxDrafts

\* what the user can leave in a textarea
Messages == {"", " ", "ok "}

\* what the injected POST to /SMS/SMSSendFromFront can give back: null, an
\* object without Status, a refusal and an acceptance
KcappResults ==
    { [null |-> TRUE],
      [Message |-> "error"],
      [Status |-> 0, Message |-> "invalid number"],
      [Status |-> 1, ReturnedObject |-> "message"] }

\* marks for a send that got no answer from KCApp
NoSendYet == [none |-> TRUE]
NoKcappTab == [notab |-> TRUE]
InjectionThrew == [threw |-> TRUE]

\* any answer of KCApp counts as an acceptance
AcceptedAnyAnswer(kcappResult) == ~Has(kcappResult, "null")

\* the negation of (!kcappResult || kcappResult.Status !== 1)
Accepted(kcappResult) ==
    /\ ~Has(kcappResult, "null")
    /\ Has(kcappResult, "Status")
    /\ kcappResult.Status = 1

\* the Send button as rendered, and while a send is under way
SendEnabled == [disabled |-> FALSE, text |-> "Send"]
SendBusy == [disabled |-> TRUE, text |-> "Sending"]

InitSms ==
    /\ cards = Drafts
    /\ spc = [d \in Drafts |-> "idle"]
    /\ sendBtn = [d \in Drafts |-> SendEnabled]
    /\ textarea \in [Drafts -> {"", "ok "}]
    /\ postSends = [d \in Drafts |-> 0]
    /\ kcapp = [d \in Drafts |-> NoSendYet]
    /\ lastAlert = ""
    /\ IdleBut("sms")

\* the user edits the draft
EditDraft(d, m) ==
    /\ d \in cards
    /\ textarea[d] # m
    /\ textarea' = [textarea EXCEPT ![d] = m]
    /\ UNCHANGED <<cards, spc, sendBtn, postSends, kcapp, lastAlert, notSmsVars>>

\* a click on Send: the handler refuses an empty message, else sendSmsDraft
\* runs up to its await of chrome.tabs.query
ClickSend(d) ==
    /\ d \in cards
    /\ ~sendBtn[d].disabled
    /\ IF Trim(textarea[d]) = ""
       THEN /\ lastAlert' = "Message is empty."
            /\ UNCHANGED <<spc, sendBtn>>
       ELSE /\ sendBtn' = [sendBtn EXCEPT ![d] = SendBusy]
            /\ spc' = [spc EXCEPT ![d] = "query"]
            /\ UNCHANGED lastAlert
    /\ UNCHANGED <<cards, textarea, postSends, kcapp, notSmsVars>>

\* chrome.tabs.query answers with n KCApp tabs
TabsQueried(d, n) ==
    /\ spc[d] = "query"
    /\ IF n = 0
       THEN /\ lastAlert' = "Please open the KCApp calendar (or any KCApp tab) and try again."
            /\ sendBtn' = [sendBtn EXCEPT ![d] = SendEnabled]
            /\ spc' = [spc EXCEPT ![d] = "idle"]
            /\ kcapp' = [kcapp EXCEPT ![d] = NoKcappTab]
       ELSE /\ spc' = [spc EXCEPT ![d] = "inject"]
            /\ UNCHANGED <<lastAlert, sendBtn, kcapp>>
    /\ UNCHANGED <<cards, textarea, postSends, notSmsVars>>

\* chrome.scripting.executeScript rejects
InjectionThrows(d) ==
    /\ spc[d] = "inject"
    /\ lastAlert' = "Send failed"
    /\ sendBtn' = [sendBtn EXCEPT ![d] = SendEnabled]
    /\ spc' = [spc EXCEPT ![d] = "idle"]
    /\ kcapp' = [kcapp EXCEPT ![d] = InjectionThrew]
    /\ UNCHANGED <<cards, textarea, postSends, notSmsVars>>

\* the injected send returns kcappResult: a refusal is alerted, after an
\* acceptance the post-send request is issued
InjectionReturns(d, kcappResult) ==
    /\ spc[d] = "inject"
    /\ kcapp' = [kcapp EXCEPT ![d] = kcappResult]
    /\ IF Accepted(kcappResult)
       THEN /\ postSends' = [postSends EXCEPT ![d] = @ + 1]
            /\ spc' = [spc EXCEPT ![d] = "post"]
            /\ UNCHANGED <<lastAlert, sendBtn>>
       ELSE /\ lastAlert' = "KCApp rejected the message"
            /\ sendBtn' = [sendBtn EXCEPT ![d] = SendEnabled]
            /\ spc' = [spc EXCEPT ![d] = "idle"]
            /\ UNCHANGED postSends
    /\ UNCHANGED <<cards, textarea, notSmsVars>>

\* the post-send request settles: with success, with success false (or no
\* error), or by throwing (network error, no JSON, null body)
PostSendSettles(d, outcome) ==
    /\ spc[d] = "post"
    /\ outcome \in {"success", "failure", "throws"}
    /\ cards' = cards \ {d}
    /\ spc' = [spc EXCEPT ![d] = "done"]
    /\ lastAlert' = IF outcome = "failure" THEN "Sent OK but cleanup failed" ELSE lastAlert
    /\ UNCHANGED <<sendBtn, textarea, postSends, kcapp, notSmsVars>>

NextSms ==
    \/ \E d \in Drafts, m \in Messages : EditDraft(d, m)
    \/ \E d \in Drafts : ClickSend(d)
    \/ \E d \in Drafts, n \in {0, 1} : TabsQueried(d, n)
    \/ \E d \in Drafts : InjectionThrows(d)
    \/ \E d \in Drafts, r \in KcappResults : InjectionReturns(d, r)
    \/ \E d \in Drafts, o \in {"success", "failure", "throws"} : PostSendSettles(d, o)

SpecSms == InitSms /\ [][NextSms]_vars

(* ------------------------ acknowledged conflicts ------------------------ *)

\* the characters of keys and dates in the order of their code units
CodeOrder == "-0123456789:"

\* position of character c in CodeOrder
CodeOf(c) == CHOOSE i \in 1..Len(CodeOrder) : CharAt(CodeOrder, i) = c

\* a < b on strings, as JavaScript compares them
RECURSIVE StrLess(_, _)
StrLess(a, b) ==
    IF b = "" THEN FALSE
    ELSE IF a = "" THEN TRUE
    ELSE IF CodeOf(CharAt(a, 1)) < CodeOf(CharAt(b, 1)) THEN TRUE
    ELSE IF CodeOf(CharAt(a, 1)) > CodeOf(CharAt(b, 1)) THEN FALSE
    ELSE StrLess(SubSeq(a, 2, Len(a)), SubSeq(b, 2, Len(b)))

\* parts.slice(from, to)
Slice(parts, from, to) ==
    SubSeq(parts, from + 1, IF to < Len(parts) THEN to ELSE Len(parts))

\* parts.join(sep)
RECURSIVE Join(_, _)
Join(parts, sep) ==
    IF parts = <<>> THEN ""
    ELSE IF Len(parts) = 1 THEN parts[1]
    ELSE parts[1] \o sep \o Join(Tail(parts), sep)

\* key.split('-').slice(1, 4).join('-')
DatePart(key) == Join(Slice(Split(key, "-"), 1, 4), "-")

getConflictKey(conflict) == conflict.groomer_id \o "-" \o conflict.date \o "-" \o conflict.slot

\* the conflict dates, in order
ConflictDates == <<"2026-03-09", "2026-03-10", "2026-03-11">>

\* the conflicts that are or were reported
AllConflicts ==
    { [groomer |-> gr[1], groomer_id |-> gr[2], date |-> ConflictDates[i], slot |-> "10:00"] :
        gr \in {<<"Kumi", "59">>, <<"Tomoko", "85">>}, i \in 1..Len(ConflictDates) }

\* the conflicts a response can hold: the scan starts at the current day
ReportedConflicts == {c \in AllConflicts : c.date # ConflictDates[1]}

\* the keys acknowledgements are stored under
AckKeys == {getConflictKey(c) : c \in AllConflicts}

\* the timestamps of acknowledgements
AckTimes == {"2026-03-01T17:00:00.000Z", "2026-03-08T09:30:00.000Z"}

\* the maps chrome.storage.sync can hold
StoredMaps ==
    UNION {[K -> AckTimes] : K \in {S \in SUBSET AckKeys : Cardinality(S) <= MaxAcks}}

\* map m without the keys outside K
Restrict(m, K) == [k \in DOMAIN m \cap K |-> m[k]]

\* the clean-up loop of loadAcknowledgedConflicts: the entries it keeps
Cleaned(m, day) == Restrict(m, {k \in DOMAIN m : ~StrLess(DatePart(k), day)})

\* the falsy test, turned round: acknowledged conflicts sort first
AckRankReversed(m, conflict) == IF getConflictKey(conflict) \in DOMAIN m THEN 0 ELSE 1

\* acknowledgedConflicts[getConflictKey(conflict)] ? 1 : 0
AckRank(m, conflict) == IF getConflictKey(conflict) \in DOMAIN m THEN 1 ELSE 0

\* Array.prototype.sort with the comparator aAck - bAck, which is stable: e
\* goes behind every item of sorted that does not rank above it
RECURSIVE InsertByAck(_, _, _)
InsertByAck(m, sorted, e) ==
    IF sorted = <<>> THEN <<e>>
    ELSE IF AckRank(m, sorted[1].conflict) <= AckRank(m, e.conflict)
         THEN <<sorted[1]>> \o InsertByAck(m, Tail(sorted), e)
    ELSE <<e>> \o sorted

RECURSIVE SortByAck(_, _)
SortByAck(m, items) ==
    IF items = <<>> THEN <<>>
    ELSE InsertByAck(m, SortByAck(m, SubSeq(items, 1, Len(items) - 1)), items[Len(items)])

\* the conflicts of a response, each with its position in the response
Numbered(conflicts) == [i \in 1..Len(conflicts) |-> [conflict |-> conflicts[i], idx |-> i]]

\* byGroomer: the groomer names in the order of their first conflict
RECURSIVE GroomerOrder(_)
GroomerOrder(conflicts) ==
    IF conflicts = <<>> THEN <<>>
    ELSE LET before == GroomerOrder(SubSeq(conflicts, 1, Len(conflicts) - 1))
             name == conflicts[Len(conflicts)].groomer
         IN  IF \E i \in 1..Len(before) : before[i] = name THEN before ELSE Append(before, name)

\* the total badge: 'All clear' or `${n} conflict${n !== 1 ? 's' : ''} to review`
ConflictBadgeText(n) ==
    IF n = 0 THEN "All clear"
    ELSE ToString(n) \o " conflict" \o (IF n # 1 THEN "s" ELSE "") \o " to review"

\* the sum of the counts of the sections
RECURSIVE SumCounts(_)
SumCounts(secs) ==
    IF secs = <<>> THEN 0 ELSE secs[1].count + SumCounts(Tail(secs))

\* one groomer section: its count of unacknowledged conflicts and its
\* conflicts, sorted, each rendered with its key, its acknowledged class and
\* its checkbox
Section(m, conflicts, name) ==
    LET IsOf(e) == e.conflict.groomer = name
        mine == SelectSeq(Numbered(conflicts), IsOf)
        sorted == SortByAck(m, mine)
    IN  [groomer |-> name,
         count |-> Cardinality({i \in 1..Len(mine) : getConflictKey(mine[i].conflict) \notin DOMAIN m}),
         items |-> [i \in 1..Len(sorted) |->
                      [key |-> getConflictKey(sorted[i].conflict),
                       acked |-> getConflictKey(sorted[i].conflict) \in DOMAIN m,
                       checked |-> getConflictKey(sorted[i].conflict) \in DOMAIN m,
                       idx |-> sorted[i].idx]]]

\* totalUnacked of displayConflicts
TotalUnacked(m, conflicts) ==
    Cardinality({n \in 1..Len(conflicts) : getConflictKey(conflicts[n]) \notin DOMAIN m})

\* what displayConflicts renders: no section for an empty response
displayConflicts(m, conflicts) ==
    LET order == GroomerOrder(conflicts)
    IN  [g \in 1..Len(order) |-> Section(m, conflicts, order[g])]

\* a toggle whose item was removed from the document: nothing of it is used again
Detached == [key |-> "", g |-> 0, i |-> 0, live |-> FALSE]

InitConflicts ==
    /\ stored \in StoredMaps
    /\ acknowledgedConflicts = <<>>
    /\ today \in {ConflictDates[2], ConflictDates[3]}
    /\ lpc = "idle"
    /\ readMap = <<>>
    /\ setCalls = 0
    /\ loadEnd = ""
    /\ conflictsData = <<>>
    /\ sections = <<>>
    /\ totalBadge = ""
    /\ ackSaves = <<>>
    /\ IdleBut("conflicts")

\* loadConflicts up to the await of chrome.storage.sync.get: showLoading
\* replaces what was rendered
StartLoadConflicts ==
    /\ lpc \in {"idle", "shown", "error"}
    /\ lpc' = "reading"
    /\ setCalls' = 0
    /\ loadEnd' = ""
    /\ conflictsData' = <<>>
    /\ sections' = <<>>
    /\ totalBadge' = ""
    /\ ackSaves' = [n \in 1..Len(ackSaves) |-> Detached]
    /\ UNCHANGED <<stored, acknowledgedConflicts, today, readMap, notConflictVars>>

\* chrome.storage.sync.get resolves: the map is taken over and cleaned; if an
\* entry was deleted chrome.storage.sync.set is called, else the load is over
\* and loadConflicts fetches /api/conflicts
AcksRead ==
    /\ lpc = "reading"
    /\ readMap' = stored
    /\ acknowledgedConflicts' = Cleaned(stored, today)
    /\ IF Cleaned(stored, today) # stored
       THEN /\ lpc' = "writing"
            /\ setCalls' = setCalls + 1
            /\ UNCHANGED loadEnd
       ELSE /\ lpc' = "fetching"
            /\ loadEnd' = "ok"
            /\ UNCHANGED setCalls
    /\ UNCHANGED <<stored, today, conflictsData, sections, totalBadge, ackSaves, notConflictVars>>

\* chrome.storage.sync.get rejects
AcksReadFails ==
    /\ lpc = "reading"
    /\ readMap' = <<>>
    /\ acknowledgedConflicts' = <<>>
    /\ loadEnd' = "read failed"
    /\ lpc' = "fetching"
    /\ UNCHANGED <<stored, today, setCalls, conflictsData, sections, totalBadge, ackSaves, notConflictVars>>

\* chrome.storage.sync.set resolves
AcksWritten ==
    /\ lpc = "writing"
    /\ stored' = acknowledgedConflicts
    /\ loadEnd' = "ok"
    /\ lpc' = "fetching"
    /\ UNCHANGED <<acknowledgedConflicts, today, readMap, setCalls, conflictsData, sections, totalBadge, ackSaves, notConflictVars>>

\* chrome.storage.sync.set rejects: the catch empties the map
AcksWriteFails ==
    /\ lpc = "writing"
    /\ acknowledgedConflicts' = <<>>
    /\ loadEnd' = "write failed"
    /\ lpc' = "fetching"
    /\ UNCHANGED <<stored, today, readMap, setCalls, conflictsData, sections, totalBadge, ackSaves, notConflictVars>>

\* /api/conflicts answers with conflicts: displayConflicts renders them
ConflictsFetched(conflicts) ==
    /\ lpc = "fetching"
    /\ conflictsData' = conflicts
    /\ sections' = displayConflicts(acknowledgedConflicts, conflicts)
    /\ totalBadge' = IF conflicts = <<>> THEN ""
                     ELSE ConflictBadgeText(TotalUnacked(acknowledgedConflicts, conflicts))
    /\ lpc' = "shown"
    /\ UNCHANGED <<stored, acknowledgedConflicts, today, readMap, setCalls, loadEnd, ackSaves, notConflictVars>>

\* /api/conflicts fails: showError replaces the content
ConflictsFetchFails ==
    /\ lpc = "fetching"
    /\ conflictsData' = <<>>
    /\ sections' = <<>>
    /\ lpc' = "error"
    /\ UNCHANGED <<stored, acknowledgedConflicts, today, readMap, setCalls, loadEnd, totalBadge, ackSaves, notConflictVars>>

NextConflicts ==
    \/ StartLoadConflicts
    \/ AcksRead
    \/ AcksReadFails
    \/ AcksWritten
    \/ AcksWriteFails
    \/ \E conflicts \in SeqsUpTo(ReportedConflicts, MaxConflicts) : ConflictsFetched(conflicts)
    \/ ConflictsFetchFails

SpecConflicts == InitConflicts /\ [][NextConflicts]_vars

(* ---------------- side panel: acknowledging displayed conflicts --------- *)

\* new Date().toISOString() at the time of a toggle
AckNow == "2026-03-11T18:00:00.000Z"

\* map m with key k set to v
WithKey(m, k, v) == [x \in DOMAIN m \cup {k} |-> IF x = k THEN v ELSE m[x]]

\* delete m[k]
WithoutKey(m, k) == [x \in DOMAIN m \ {k} |-> m[x]]

\* the mutant counts the items that do not carry the class 'acknowledged'
SectionUnackedByClass(m, s) ==
    Cardinality({i \in 1..Len(s.items) : ~s.items[i].acked})

\* sectionUnacked: the items of the section whose key is not in the map
SectionUnacked(m, s) ==
    Cardinality({i \in 1..Len(s.items) : s.items[i].key \notin DOMAIN m})

\* updateConflictCounts: the count badge of every section
CountedSections(m, secs) ==
    [g \in 1..Len(secs) |-> [secs[g] EXCEPT !.count = SectionUnacked(m, secs[g])]]

\* updateConflictCounts: the total badge, if there is one
CountedTotal(m, secs, text) ==
    IF text = "" THEN text ELSE ConflictBadgeText(SumCounts(CountedSections(m, secs)))

\* the checkbox of item i of section g changes: toggleAcknowledged sets or
\* deletes the key and calls chrome.storage.sync.set, which stores the map
\* (ok) or is going to reject
ToggleAck(g, i, ok) ==
    /\ lpc = "shown"
    /\ g \in 1..Len(sections) /\ i \in 1..Len(sections[g].items)
    /\ Len(ackSaves) < MaxPendingSaves
    /\ LET it == sections[g].items[i]
           m == IF ~it.checked THEN WithKey(acknowledgedConflicts, it.key, AckNow)
                ELSE WithoutKey(acknowledgedConflicts, it.key)
       IN  /\ sections' = [sections EXCEPT ![g].items[i].checked = ~it.checked]
           /\ acknowledgedConflicts' = m
           /\ stored' = IF ok THEN m ELSE stored
           /\ ackSaves' = Append(ackSaves, [key |-> it.key, g |-> g, i |-> i, live |-> TRUE])
    /\ UNCHANGED <<today, lpc, readMap, setCalls, loadEnd, conflictsData, totalBadge, notConflictVars>>

\* the chrome.storage.sync.set of the oldest toggle settles, resolved or
\* rejected: updateConflictCounts runs, then the handler sets the class of
\* its item from the checkbox
AckSaveSettles ==
    /\ ackSaves # <<>>
    /\ ackSaves' = Tail(ackSaves)
    /\ LET counted == CountedSections(acknowledgedConflicts, sections)
           t == Head(ackSaves)
       IN  sections' = IF t.live
                       THEN [counted EXCEPT ![t.g].items[t.i].acked = counted[t.g].items[t.i].checked]
                       ELSE counted
    /\ totalBadge' = CountedTotal(acknowledgedConflicts, sections, totalBadge)
    /\ UNCHANGED <<stored, acknowledgedConflicts, today, lpc, readMap, setCalls, loadEnd, conflictsData, notConflictVars>>

\* the conflicts reported while acknowledgements are toggled: two of Kumi and
\* one of Tomoko
ShownConflicts == {c \in ReportedConflicts : c.groomer = "Kumi" \/ c.date = ConflictDates[2]}

\* the responses of /api/conflicts: every reported slot once
AckResponses ==
    {r \in SeqsUpTo(ShownConflicts, MaxShown) : \A a, b \in 1..Len(r) : a # b => r[a] # r[b]}

\* the conflicts tab before it is opened: storage is empty or holds one
\* acknowledgement of a day gone by
InitAcks ==
    /\ InitConflicts
    /\ Cardinality(DOMAIN stored) <= 1
    /\ \A k \in DOMAIN stored : stored[k] = "2026-03-08T09:30:00.000Z" /\ DatePart(k) = ConflictDates[1]
    /\ today = ConflictDates[2]

NextAcks ==
    \/ StartLoadConflicts
    \/ AcksRead
    \/ AcksReadFails
    \/ AcksWritten
    \/ AcksWriteFails
    \/ \E conflicts \in AckResponses : ConflictsFetched(conflicts)
    \/ ConflictsFetchFails
    \/ \E g \in 1..MaxShown : \E i \in 1..MaxShown : \E ok \in BOOLEAN : ToggleAck(g, i, ok)
    \/ AckSaveSettles

SpecAcks == InitAcks /\ [][NextAcks]_vars

(* --------------------------- availability tab --------------------------- *)

\* number of days appendAvailabilityPage adds at a time
AVAIL_PAGE_SIZE == 15

\* the reserve slot the checkbox is about
ReserveSlot == "14:30"

\* the available_times a day of the response can carry
AvailableTimes ==
    { <<>>, <<"14:30">>, <<"10:00">>, <<"10:00", "14:30">>, <<"14:30", "08:30", "13:30">> }

\* the days a response can hold
AvailDays == {[date |-> "2026-03-10", available_times |-> ts] : ts \in AvailableTimes}

\* a response of more than one page
LongResponse ==
    [i \in 1..(AVAIL_PAGE_SIZE + 1) |->
        [date |-> "2026-03-10",
         available_times |-> IF i % 3 = 0 THEN <<"14:30">>
                             ELSE IF i % 3 = 1 THEN <<"10:00", "14:30">> ELSE <<"08:30">>]]

\* the responses of /api/availability
AvailResponses == SeqsUpTo(AvailDays, MaxDays) \cup {LongResponse}

\* the filter left out: every available time is kept
FilteredTimesAll(times, checked) == times

\* include230 ? day.available_times : day.available_times.filter(t => t !== '14:30')
FilteredTimes(times, checked) ==
    LET NotReserve(t) == t # ReserveSlot
    IN  IF checked THEN times ELSE SelectSeq(times, NotReserve)

\* timelineEntries.sort by time: t goes behind the entries not later than it
RECURSIVE InsertByTime(_, _)
InsertByTime(sorted, t) ==
    IF sorted = <<>> THEN <<t>>
    ELSE IF StrLess(t, sorted[1]) THEN <<t>> \o sorted
    ELSE <<sorted[1]>> \o InsertByTime(Tail(sorted), t)

RECURSIVE SortByTime(_)
SortByTime(times) ==
    IF times = <<>> THEN <<>>
    ELSE InsertByTime(SortByTime(SubSeq(times, 1, Len(times) - 1)), times[Len(times)])

\* buildDayHtml(day, include230) for the day at position n of the response:
\* no card (<<>>) without open times, else the card with its "open" count and
\* its AVAILABLE entries in timeline order
buildDayHtml(day, n, checked) ==
    LET filteredAvailableTimes == FilteredTimes(day.available_times, checked)
    IN  IF Len(filteredAvailableTimes) = 0 THEN <<>>
        ELSE << [day |-> n,
                 date |-> day.date,
                 open |-> Len(filteredAvailableTimes),
                 available |-> SortByTime(filteredAvailableTimes)] >>

\* the cards of days from + 1 .. to of the response
RECURSIVE BatchCards(_, _, _, _)
BatchCards(days, from, to, checked) ==
    IF from >= to THEN <<>>
    ELSE buildDayHtml(days[from + 1], from + 1, checked) \o BatchCards(days, from + 1, to, checked)

\* end of the batch appendAvailabilityPage takes from days
BatchEnd(days, shown) ==
    IF shown + AVAIL_PAGE_SIZE < Len(days) THEN shown + AVAIL_PAGE_SIZE ELSE Len(days)

InitAvail ==
    /\ include230 \in BOOLEAN
    /\ availabilityAllDays = <<>>
    /\ availabilityShownCount = 0
    /\ availCards = <<>>
    /\ availView = "loading"
    /\ availLoads = 1
    /\ IdleBut("avail")

\* the checkbox changes with a groomer selected: loadAvailability shows the
\* loading state and requests the availability
ToggleInclude230 ==
    /\ availLoads < MaxAvailLoads
    /\ include230' = ~include230
    /\ availCards' = <<>>
    /\ availView' = "loading"
    /\ availLoads' = availLoads + 1
    /\ UNCHANGED <<availabilityAllDays, availabilityShownCount, notAvailVars>>

\* a request is answered with days: displayAvailability resets the paging and
\* appendAvailabilityPage renders the first batch with the checkbox as it is now
AvailabilityLoaded(days) ==
    /\ availLoads > 0
    /\ availLoads' = availLoads - 1
    /\ IF Len(days) = 0
       THEN /\ availView' = "no days"
            /\ availCards' = <<>>
            /\ UNCHANGED <<availabilityAllDays, availabilityShownCount>>
       ELSE /\ availabilityAllDays' = days
            /\ availabilityShownCount' = BatchEnd(days, 0)
            /\ availCards' = BatchCards(days, 0, BatchEnd(days, 0), include230)
            /\ availView' = "days"
    /\ UNCHANGED <<include230, notAvailVars>>

\* a request fails: showError replaces the content
AvailabilityFails ==
    /\ availLoads > 0
    /\ availLoads' = availLoads - 1
    /\ availView' = "error"
    /\ availCards' = <<>>
    /\ UNCHANGED <<include230, availabilityAllDays, availabilityShownCount, notAvailVars>>

\* a click on "Load more": appendAvailabilityPage adds the next batch
LoadMoreDays ==
    /\ availView = "days"
    /\ availabilityShownCount < Len(availabilityAllDays)
    /\ availabilityShownCount' = BatchEnd(availabilityAllDays, availabilityShownCount)
    /\ availCards' = availCards \o BatchCards(availabilityAllDays, availabilityShownCount,
                                              BatchEnd(availabilityAllDays, availabilityShownCount), include230)
    /\ UNCHANGED <<include230, availabilityAllDays, availView, availLoads, notAvailVars>>

NextAvail ==
    \/ ToggleInclude230
    \/ \E days \in AvailResponses : AvailabilityLoaded(days)
    \/ AvailabilityFails
    \/ LoadMoreDays

SpecAvail == InitAvail /\ [][NextAvail]_vars

(* ------------------- background.js: the daily print reminder ------------ *)

\* milliseconds of one day, and of 15:00 since midnight (target.setHours(15, 0, 0, 0))
DayMs == 86400000

ReminderHour == 15 * 3600000

\* 24 * 60 minutes, in milliseconds
ReminderPeriod == 24 * 60 * 60000

\* the times of day the clock takes
TimesOfDay == {0, ReminderHour - 1, ReminderHour, ReminderHour + 1, DayMs - 1}

\* Date.getTime() of a clock value, counted from midnight of day 0
TimeOf(c) == c.d * DayMs + c.t

\* new Date().getDay()
DayOfWeek(c, first) == (first + c.d) % 7

\* target: 15:00 today, moved to tomorrow if (now >= target)
NextReminderTime(c) ==
    LET target == c.d * DayMs + ReminderHour
    IN  IF TimeOf(c) >= target THEN target + DayMs ELSE target

\* chrome.alarms.create(name, {when, periodInMinutes}): an alarm of the same
\* name is cancelled and replaced
AlarmsCreate(store, name, when) ==
    {a \in store : a.name # name} \cup {[name |-> name, when |-> when]}

\* chrome.runtime.getURL(`reminder.html?nextDay=${nextDay}`)
ReminderUrl(nextDay) == "reminder.html?nextDay=" \o nextDay

\* location.search: the URL from its first "?" on
SearchOf(url) ==
    LET i == IndexOf(url, "?")
    IN  IF i = 0 THEN "" ELSE SubSeq(url, i, Len(url))

\* new URLSearchParams(search).get(key): the value of the first key=value
\* pair with that key; has is FALSE (get answers null) if there is none
SearchParam(search, key) ==
    LET body == IF search # "" /\ CharAt(search, 1) = "?" THEN SubSeq(search, 2, Len(search)) ELSE search
        pairs == Split(body, "&")
        hits == {i \in 1..Len(pairs) : IndexOf(pairs[i] \o "=", "=") = Len(key) + 1
                                        /\ SubSeq(pairs[i] \o "=", 1, Len(key)) = key}
    IN  IF hits = {} THEN [has |-> FALSE, value |-> ""]
        ELSE LET p == pairs[CHOOSE i \in hits : \A j \in hits : i <= j]
             IN  [has |-> TRUE,
                  value |-> IF Len(p) <= Len(key) THEN "" ELSE SubSeq(p, Len(key) + 2, Len(p))]

\* the dash of the message is written "-" here
TuesdayMessage == "Next business day is Tuesday - print those appointment cards!"

TomorrowMessage == "Print tomorrow's appointment cards before you forget!"

\* reminder.js: the message of the window opened at url
ReminderMessage(url) ==
    LET param == SearchParam(SearchOf(url), "nextDay")
        nextDay == IF ~param.has \/ param.value = "" THEN "tomorrow" ELSE param.value
    IN  IF nextDay = "Tuesday" THEN TuesdayMessage ELSE TomorrowMessage

InitReminder ==
    /\ firstDay \in 0..6
    /\ clock \in [d : {0}, t : TimesOfDay]
    /\ scheduled = {}
    /\ alarmGets = <<>>
    /\ winOpens = <<>>
    /\ reminderWindows = <<>>
    /\ created = <<>>
    /\ IdleBut("reminder")

\* time passes
ClockAdvances(c) ==
    /\ c \in [d : 0..MaxDaysElapsed, t : TimesOfDay]
    /\ TimeOf(c) > TimeOf(clock)
    /\ clock' = c
    /\ UNCHANGED <<firstDay, scheduled, alarmGets, winOpens, reminderWindows, created, notReminderVars>>

\* onInstalled calls schedulePrintReminder(): chrome.alarms.get is sent, its
\* answer is the alarm of that name held when the request is served
schedulePrintReminder ==
    /\ Len(alarmGets) + Len(created) < MaxInstalls
    /\ alarmGets' = Append(alarmGets, [existing |-> \E a \in scheduled : a.name = PRINT_REMINDER_ALARM])
    /\ UNCHANGED <<firstDay, clock, scheduled, winOpens, reminderWindows, created, notReminderVars>>

\* the callback of chrome.alarms.get runs: nothing if an alarm was reported,
\* otherwise the alarm is created for the next 15:00
AlarmGetCallback ==
    /\ alarmGets # <<>>
    /\ alarmGets' = Tail(alarmGets)
    /\ IF Head(alarmGets).existing
       THEN UNCHANGED <<scheduled, created>>
       ELSE /\ scheduled' = AlarmsCreate(scheduled, PRINT_REMINDER_ALARM, NextReminderTime(clock))
            /\ created' = Append(created, [now |-> clock, when |-> NextReminderTime(clock),
                                           held |-> {a \in scheduled : a.name = PRINT_REMINDER_ALARM}])
    /\ UNCHANGED <<firstDay, clock, winOpens, reminderWindows, notReminderVars>>

\* the alarm a is due: chrome schedules its next period and the onAlarm
\* listener calls showPrintReminder(), which calls openReminderWindow(nextDay)
\* on a business day
ReminderAlarmFires(a) ==
    /\ a \in scheduled
    /\ a.when <= TimeOf(clock)
    /\ Len(winOpens) + Len(reminderWindows) < MaxReminders
    /\ \E next \in {a.when + ReminderPeriod, TimeOf(clock) + ReminderPeriod} :
          scheduled' = AlarmsCreate(scheduled, a.name, next)
    /\ LET day == DayOfWeek(clock, firstDay)
           nextDay == showPrintReminder(day, "none")
       IN  winOpens' = IF a.name = PRINT_REMINDER_ALARM /\ nextDay # "none"
                       THEN Append(winOpens, [url |-> ReminderUrl(nextDay), day |-> day])
                       ELSE winOpens
    /\ UNCHANGED <<firstDay, clock, alarmGets, reminderWindows, created, notReminderVars>>

\* the callback of chrome.windows.getLastFocused creates the popup, and
\* reminder.js sets its message
ReminderWindowOpens ==
    /\ winOpens # <<>>
    /\ winOpens' = Tail(winOpens)
    /\ reminderWindows' = Append(reminderWindows,
           [url |-> Head(winOpens).url, msg |-> ReminderMessage(Head(winOpens).url),
            day |-> Head(winOpens).day])
    /\ UNCHANGED <<firstDay, clock, scheduled, alarmGets, created, notReminderVars>>

NextReminder ==
    \/ \E c \in [d : 0..MaxDaysElapsed, t : TimesOfDay] : ClockAdvances(c)
    \/ schedulePrintReminder
    \/ AlarmGetCallback
    \/ \E a \in scheduled : ReminderAlarmFires(a)
    \/ ReminderWindowOpens

SpecReminder == InitReminder /\ [][NextReminder]_vars

(* ---------------------- side panel: the booking form -------------------- *)

\* the options of the select bk-time
TIME_OPTIONS == <<"08:30", "10:00", "11:30", "13:30", "14:30">>

\* the ids of the pets and of the groomers of a client, as option values
BookingPetIds == <<"7", "12", "31">>

BookingGroomerIds == <<"59", "85", "8">>

\* the dates the date input can hold
BookingDates == {"", "2026-03-12"}

\* the times the extraction can name: none, two options, and one that is no option
ExtractedTimes == {"", "10:00", "14:30", "09:00"}

\* the option lists a form can offer: the first ids, none to MaxOptions of them
OptionLists(ids) == {SubSeq(ids, 1, n) : n \in 0..(IF MaxOptions < Len(ids) THEN MaxOptions ELSE Len(ids))}

\* the values of sequence l
ValuesOf(l) == {l[n] : n \in 1..Len(l)}

\* value of a select rendered with the given option values, the option equal
\* to chosen carrying the attribute selected: that option, else the first
\* option, else the empty string
SelectValue(options, chosen) ==
    IF \E n \in 1..Len(options) : options[n] = chosen THEN chosen
    ELSE IF options = <<>> THEN ""
    ELSE options[1]

\* parseInt(value): NaN unless the value begins with a digit
BkParseInt(value) ==
    IF value # "" /\ IsDigit(CharAt(value, 1))
    THEN [nan |-> FALSE, n |-> DigitsPrefix(value, 0)]
    ELSE [nan |-> TRUE, n |-> 0]

\* !petId: NaN and 0 are falsy
Falsy(p) == p.nan \/ p.n = 0

\* the mutant lets a click through whatever the button's state
ClickableAlways(btn) == TRUE

\* a click reaches the onclick handler of a button that is not disabled
Clickable(btn) == ~btn.disabled

\* renderBookingForm: the form as rendered from the extraction
InitBooking ==
    /\ bkPets \in OptionLists(BookingPetIds)
    /\ bkGroomers \in OptionLists(BookingGroomerIds)
    /\ \E chosen \in {""} \cup ValuesOf(BookingPetIds) : bkPet = SelectValue(bkPets, chosen)
    /\ \E chosen \in {""} \cup ValuesOf(BookingGroomerIds) : bkGroomer = SelectValue(bkGroomers, chosen)
    /\ bkDate \in BookingDates
    /\ \E t \in ExtractedTimes : bkTime = SelectValue(TIME_OPTIONS, t)
    /\ bkBtn = [disabled |-> FALSE, text |-> "Book"]
    /\ bkStatus = ""
    /\ bkFetches = 0
    /\ bkRequests = 0
    /\ bkBody = [pet_id |-> 0, date |-> "", time |-> "", groomer_id |-> 0]
    /\ bkBooked = 0
    /\ bkHidden = FALSE
    /\ bkHideTimer = FALSE
    /\ IdleBut("booking")

\* the user changes a field of the form
EditBooking(pet, date, time, groomer) ==
    /\ ~bkHidden
    /\ pet \in ValuesOf(bkPets)
    /\ groomer \in ValuesOf(bkGroomers)
    /\ time \in ValuesOf(TIME_OPTIONS)
    /\ <<pet, date, time, groomer>> # <<bkPet, bkDate, bkTime, bkGroomer>>
    /\ bkPet' = pet /\ bkDate' = date /\ bkTime' = time /\ bkGroomer' = groomer
    /\ UNCHANGED <<bkPets, bkGroomers, bkBtn, bkStatus, bkFetches, bkRequests, bkBody, bkBooked,
                   bkHidden, bkHideTimer, notBookingVars>>

\* a click on Book, up to the await of fetch
ConfirmClicked ==
    /\ ~bkHidden
    /\ Clickable(bkBtn)
    /\ LET petId == BkParseInt(bkPet)
           groomerId == BkParseInt(bkGroomer)
       IN  IF Falsy(petId) \/ bkDate = "" \/ bkTime = "" \/ Falsy(groomerId)
           THEN /\ bkStatus' = "Please fill in all fields."
                /\ UNCHANGED <<bkBtn, bkFetches, bkRequests, bkBody>>
           ELSE /\ bkRequests < MaxBookings
                /\ bkBtn' = [disabled |-> TRUE, text |-> "Booking..."]
                /\ bkStatus' = ""
                /\ bkFetches' = bkFetches + 1
                /\ bkRequests' = bkRequests + 1
                /\ bkBody' = [pet_id |-> petId.n, date |-> bkDate, time |-> bkTime,
                              groomer_id |-> groomerId.n]
    /\ UNCHANGED <<bkPets, bkGroomers, bkPet, bkDate, bkTime, bkGroomer, bkBooked,
                   bkHidden, bkHideTimer, notBookingVars>>

\* the request is answered with success: the button stays as it is but for
\* its text, and the modal is to be hidden after 1800 ms
BookingSucceeds ==
    /\ bkFetches > 0
    /\ bkFetches' = bkFetches - 1
    /\ bkBooked' = bkBooked + 1
    /\ bkStatus' = "Booked!"
    /\ bkBtn' = [bkBtn EXCEPT !.text = "Done"]
    /\ bkHideTimer' = TRUE
    /\ UNCHANGED <<bkPets, bkGroomers, bkPet, bkDate, bkTime, bkGroomer, bkRequests, bkBody,
                   bkHidden, notBookingVars>>

\* the request is answered without success, or fetch or resp.json() throws
BookingFails ==
    /\ bkFetches > 0
    /\ bkFetches' = bkFetches - 1
    /\ bkStatus' = "Error"
    /\ bkBtn' = [disabled |-> FALSE, text |-> "Book"]
    /\ UNCHANGED <<bkPets, bkGroomers, bkPet, bkDate, bkTime, bkGroomer, bkRequests, bkBody, bkBooked,
                   bkHidden, bkHideTimer, notBookingVars>>

\* a click on Cancel or on the close button of the modal
CancelClicked ==
    /\ ~bkHidden
    /\ bkHidden' = TRUE
    /\ UNCHANGED <<bkPets, bkGroomers, bkPet, bkDate, bkTime, bkGroomer, bkBtn, bkStatus,
                   bkFetches, bkRequests, bkBody, bkBooked, bkHideTimer, notBookingVars>>

\* the timer set after a successful booking hides the modal
HideTimerFires ==
    /\ bkHideTimer
    /\ bkHideTimer' = FALSE
    /\ bkHidden' = TRUE
    /\ UNCHANGED <<bkPets, bkGroomers, bkPet, bkDate, bkTime, bkGroomer, bkBtn, bkStatus,
                   bkFetches, bkRequests, bkBody, bkBooked, notBookingVars>>

NextBooking ==
    \/ \E pet \in ValuesOf(BookingPetIds) : \E groomer \in ValuesOf(BookingGroomerIds) :
          \E date \in BookingDates : \E time \in ValuesOf(TIME_OPTIONS) :
             EditBooking(pet, date, time, groomer)
    \/ ConfirmClicked
    \/ BookingSucceeds
    \/ BookingFails
    \/ CancelClicked
    \/ HideTimerFires

SpecBooking == InitBooking /\ [][NextBooking]_vars

(* ------------------------- vocabulary of the claims --------------------- *)

GroomerKeys == <<"kumi", "tomoko", "mandilyn">>

GroomerNames == <<"Kumi", "Tomoko", "Mandilyn">>

RequestedReasons == {"Requested " \o GroomerNames[k] : k \in 1..3}

AlwaysReasons == {"Always with " \o GroomerNames[k] : k \in 1..3}

\* the record asks for hand-stripping: service type Handstrip or a '#' in the pet name
HandstripRecord(it) ==
    \/ Has(it, "service_type") /\ it["service_type"] = "Handstrip"
    \/ Has(it, "pet_name") /\ \E i \in 1..Len(it["pet_name"]) : CharAt(it["pet_name"], i) = "#"

\* the record names groomer k in the preference field or in the notes
Named(it, k) == Requested(it, GroomerKeys[k])

AnyNamed(it) == \E k \in 1..3 : Named(it, k)

\* the first groomer, in the order Kumi, Tomoko, Mandilyn, that the record names
FirstNamed(it) == CHOOSE k \in 1..3 : Named(it, k) /\ \A j \in 1..(k - 1) : ~Named(it, j)

Dominant(it) == getDominantGroomer(StrOr(it, "groomer_stats"), NumOr0(it, "total_visits"))

KeyIndex(key) == CHOOSE k \in 1..3 : GroomerKeys[k] = key

(* ------------------------------- claims --------------------------------- *)

\* C1: a record whose service type is Handstrip or whose pet name contains '#'
\* is classified Kumi / "Handstrip", whatever its other fields say.
C1_HandstripAlwaysKumi ==
    (pc = "done" /\ HandstripRecord(item)) => result = Res("kumi", "Handstrip")

\* a '#' pet booked as Full Service with an explicit preference for Tomoko
C1_Witness ==
    /\ pc = "done"
    /\ Has(item, "pet_name") /\ item["pet_name"] = "Bo #"
    /\ Has(item, "service_type") /\ item["service_type"] = "Full Service"
    /\ Has(item, "groomer") /\ item["groomer"] = "Tomoko"
    /\ result = Res("kumi", "Handstrip")

FixedResults ==
    {Res("kumi", "Handstrip"), Res("mandilyn", "LG/XL dog"), Res("mandilyn", "New client"),
     Res("flexible", "Any groomer")}
    \cup {Res(GroomerKeys[k], "Requested " \o GroomerNames[k]) : k \in 1..3}
    \cup {Res(GroomerKeys[k], "Always with " \o GroomerNames[k]) : k \in 1..3}

\* C2: for every record, also one without any optional field, the call returns
\* one result whose bucket and reason are those of one of the six rules.
C2_Total == pc = "done" => result \in FixedResults

\* the record without any field has been classified
C2_Witness == pc = "done" /\ item = NoFields /\ result = Res("mandilyn", "New client")

\* the six rules as an ordered table of match / result pairs
RuleTable(it) ==
    << [matches |-> HandstripRecord(it), result |-> Res("kumi", "Handstrip")],
       [matches |-> AnyNamed(it),
        result |-> IF AnyNamed(it)
                   THEN Res(GroomerKeys[FirstNamed(it)], "Requested " \o GroomerNames[FirstNamed(it)])
                   ELSE NoResult],
       [matches |-> Dominant(it) # NullKey,
        result |-> IF Dominant(it) # NullKey
                   THEN Res(Dominant(it), "Always with " \o GroomerNames[KeyIndex(Dominant(it))])
                   ELSE NoResult],
       [matches |-> extractSize(it) \in {"LG", "XL"}, result |-> Res("mandilyn", "LG/XL dog")],
       [matches |-> ~Has(it, "last_completed_date") \/ NumOr0(it, "total_visits") = 0,
        result |-> Res("mandilyn", "New client")],
       [matches |-> TRUE, result |-> Res("flexible", "Any groomer")] >>

\* the result of the lowest-numbered rule of the table that matches
TableResult(it) ==
    LET t == RuleTable(it)
        first == CHOOSE k \in 1..6 : t[k].matches /\ \A j \in 1..(k - 1) : ~t[j].matches
    IN  t[first].result

\* C3: the classifier's result is that of the six-rule table evaluated top-down,
\* the lowest-numbered matching rule winning.
C3_FirstMatchWins == pc = "done" => result = TableResult(item)

\* an explicit preference for Tomoko beats a 100% history with Kumi on an XL dog
C3_Witness ==
    /\ pc = "done"
    /\ Has(item, "groomer") /\ item["groomer"] = "Tomoko"
    /\ Has(item, "groomer_stats") /\ item["groomer_stats"] = "Kumi:4"
    /\ extractSize(item) = "XL"
    /\ ~HandstripRecord(item)
    /\ result = Res("tomoko", "Requested Tomoko")

\* C4: a record that is not handstrip and names one or more groomers goes to the
\* first groomer, in the order Kumi, Tomoko, Mandilyn, named in the preference
\* field or the notes, with reason "Requested {name}".
C4_FirstNamedGroomer ==
    (pc = "done" /\ ~HandstripRecord(item) /\ AnyNamed(item))
        => result = Res(GroomerKeys[FirstNamed(item)], "Requested " \o GroomerNames[FirstNamed(item)])

\* the preference field names Tomoko, the notes name Kumi: Kumi wins
C4_Witness ==
    /\ pc = "done"
    /\ Has(item, "groomer") /\ item["groomer"] = "Tomoko"
    /\ Has(item, "pet_warning") /\ item["pet_warning"] = "Kumi only"
    /\ result = Res("kumi", "Requested Kumi")

\* an occurrence of name in text that has a word character right before or after it
InsideLongerWord(text, name, i) == WordAt(text, i - 1) \/ WordAt(text, i + Len(name))

\* name stands in text at position i
Occurs(text, name, i) ==
    i + Len(name) - 1 <= Len(text) /\ SubSeq(text, i, i + Len(name) - 1) = name

\* groomer names occur in the free text, and only inside longer words;
\* the preference field names nobody
OnlyInsideLongerWords(it) ==
    LET text == AllText(it)
        pref == ToLowerCase(StrOr(it, "groomer"))
    IN  /\ \A k \in 1..3 : ~Includes(pref, GroomerKeys[k])
        /\ \E k \in 1..3 : \E i \in 1..Len(text) : Occurs(text, GroomerKeys[k], i)
        /\ \A k \in 1..3 : \A i \in 1..Len(text) :
               Occurs(text, GroomerKeys[k], i) => InsideLongerWord(text, GroomerKeys[k], i)

\* C5: a groomer name that occurs in the warning and notes text only inside a
\* longer word does not trigger the explicit-preference rule; the record is
\* classified by rule 1 or rules 3-6.
C5_WholeWordOnly ==
    (pc = "done" /\ OnlyInsideLongerWords(item))
        => /\ result.reason \notin RequestedReasons
           /\ ~HandstripRecord(item) => result \in FixedResults \ {Res("kumi", "Handstrip")}

\* notes "Tomokofan" and nothing else naming a groomer
C5_Witness ==
    /\ pc = "done"
    /\ OnlyInsideLongerWords(item)
    /\ Has(item, "notes") /\ item["notes"] = "Tomokofan"
    /\ result = Res("flexible", "Any groomer")

\* the parsed visit breakdown of the record
Breakdown(it) == parseGroomerStats(StrOr(it, "groomer_stats"), NumOr0(it, "total_visits"))

\* position in the breakdown of the groomer with the most visits (the first of them)
TopIndex(it) ==
    LET b == Breakdown(it)
    IN  CHOOSE i \in 1..Len(b) :
            /\ \A j \in 1..Len(b) : b[j].count <= b[i].count
            /\ \A j \in 1..(i - 1) : b[j].count < b[i].count

\* at least 3 visits, and the top groomer's share of them, in percent rounded to
\* the nearest integer, is at least 60 (that is: the share is at least 59.5%)
HistoryDominant(it) ==
    /\ NumOr0(it, "total_visits") >= 3
    /\ Len(Breakdown(it)) > 0
    /\ 200 * Breakdown(it)[TopIndex(it)].count >= 119 * it["total_visits"]

TopName(it) == Breakdown(it)[TopIndex(it)].name

\* the name contains the name of one of the three groomers, in any case
KnownGroomer(name) == \E k \in 1..3 : Includes(ToLowerCase(name), GroomerKeys[k])

\* the first groomer, in the order Kumi, Tomoko, Mandilyn, whose name the name contains
GroomerOf(name) ==
    CHOOSE k \in 1..3 : /\ Includes(ToLowerCase(name), GroomerKeys[k])
                        /\ \A j \in 1..(k - 1) : ~Includes(ToLowerCase(name), GroomerKeys[j])

C7_LargeBeforeNewClient ==
    (pc = "done" /\ ~HandstripRecord(item) /\ ~AnyNamed(item) /\ Dominant(item) = NullKey
       /\ extractSize(item) \in {"LG", "XL"})
        => result = Res("mandilyn", "LG/XL dog")

\* an XL dog with no visits
C7_Witness ==
    /\ pc = "done"
    /\ extractSize(item) = "XL"
    /\ Has(item, "total_visits") /\ item["total_visits"] = 0
    /\ result = Res("mandilyn", "LG/XL dog")

\* C8: a record that matches none of rules 1-4 and has totalVisits = 0 or no last
\* completed date goes to Mandilyn with reason "New client", never to Flexible.
C8_NewClientDefault ==
    (pc = "done" /\ ~HandstripRecord(item) /\ ~AnyNamed(item) /\ Dominant(item) = NullKey
       /\ extractSize(item) \notin {"LG", "XL"}
       /\ (~Has(item, "last_completed_date") \/ NumOr0(item, "total_visits") = 0))
        => result = Res("mandilyn", "New client")

\* an MD dog with a last completed date and totalVisits = 0
C8_Witness ==
    /\ pc = "done"
    /\ extractSize(item) = "MD"
    /\ Has(item, "last_completed_date")
    /\ Has(item, "total_visits") /\ item["total_visits"] = 0
    /\ result = Res("mandilyn", "New client")

\* C9: the result is Flexible / "Any groomer" exactly for the records that are
\* not handstrip, name no groomer, have no dominant groomer, are not LG/XL and
\* have both a last completed date and totalVisits > 0.
C9_FlexibleExactly ==
    pc = "done"
        => LET none == /\ ~HandstripRecord(item)
                       /\ ~AnyNamed(item)
                       /\ Dominant(item) = NullKey
                       /\ extractSize(item) \notin {"LG", "XL"}
                       /\ Has(item, "last_completed_date")
                       /\ NumOr0(item, "total_visits") > 0
           IN  /\ result.group = "flexible" <=> none
               /\ result.reason = "Any groomer" <=> none

\* an MD dog with 5 visits split 2/2 and a last completed date
C9_Witness ==
    /\ pc = "done"
    /\ Has(item, "groomer_stats") /\ item["groomer_stats"] = "Kumi:2|Tomoko:2"
    /\ extractSize(item) = "MD"
    /\ Has(item, "last_completed_date")
    /\ result = Res("flexible", "Any groomer")

\* the record without the _groupReason that displayWaitlist adds to it
WithoutReason(it) == [f \in DOMAIN it \ {"_groupReason"} |-> it[f]]

BookedAt(g, t) == SelectSeq(schedule[g], LAMBDA a : a.time = t)

\* some minute lies both in the 90-minute block at slot and in the real window of a
SharesMinute(slot, a) ==
    \E m \in slot..(slot + NominalBlock - 1) :
        a.time <= m /\ m < a.time + durations[DurationKey(a)]

\* the finding reported for groomer g at slot, as a one-element or empty sequence
FindingAt(g, slot) == SelectSeq(findings, LAMBDA f : f.groomerId = g /\ f.slotTime = slot)

C11_BathOnlyWitness ==
    /\ fpc = "done"
    /\ durations["bathOnly"] = 75
    /\ schedule["Kumi"] = <<[time |-> Minutes(8, 30), service |-> "BathOnly", size |-> "MD"]>>
    /\ findings = <<>>

\* run r takes its last step
Finishes(r) == r \in 1..Len(runs) /\ runs[r].pc # "done" /\ runs'[r].pc = "done"

\* the decimal numeral of a count between 0 and 99
Decimal(n) == IF n < 10 THEN Digits[n + 1] ELSE Digits[(n \div 10) + 1] \o Digits[(n % 10) + 1]

\* C12: a run that got an OK response leaves the badge showing the decimal
\* count when the count is positive and nothing when it is 0 or missing (never
\* "0"); a run that failed leaves the badge empty; a run that got a response
\* that is not OK leaves the badge as it was; every 'updateBadge' alarm starts a run.
C12_BadgeShowsCount ==
    /\ [][\A r \in 1..MaxRuns : Finishes(r) =>
            /\ runs[r].pc = "json" =>
                  /\ badge' = (IF runs[r].body.kind = "count" /\ runs[r].body.count > 0
                               THEN Decimal(runs[r].body.count) ELSE "")
                  /\ badge' # "0"
            /\ runs'[r].outcome = "error" => badge' = ""
            /\ runs'[r].outcome = "notok" => badge' = badge]_vars
    /\ [][lastEvent' = "alarm:updateBadge" /\ lastEvent' # lastEvent
            => Len(runs') = Len(runs) + 1 /\ runs'[Len(runs')].pc = "config"]_vars

\* a run got an OK response with count 10 and set the badge to "10"
C12_Witness ==
    /\ Len(runs) >= 1
    /\ runs[1].outcome = "ok" /\ runs[1].body = [kind |-> "count", count |-> 10]
    /\ badge = "10"
    /\ lastEvent = "callback"
    /\ ~installed

\* the pet name carries the show-dog marker '*'
ShowDog(it) ==
    Has(it, "pet_name") /\ \E i \in 1..Len(it["pet_name"]) : CharAt(it["pet_name"], i) = "*"

\* C13: a show dog ('*' in the pet name) without a handstrip, explicit-preference
\* or dominant-history signal is classified Tomoko or Kumi, not Mandilyn or Flexible.
C13_ShowDogToTomokoOrKumi ==
    (pc = "done" /\ ShowDog(item) /\ ~HandstripRecord(item) /\ ~AnyNamed(item)
       /\ Dominant(item) = NullKey)
        => result.group \in {"tomoko", "kumi"}

\* a step that runs a picker-read callback of poll p
CallbackOf(p) == p \in 1..Len(polls) /\ polls'[p].out = polls[p].out - 1

\* C14: once pollAndInjectDate has been called for a later date, a read
\* callback of an earlier poll injects nothing and neither clears the later
\* poll's interval nor resets activePoll.
C14_NewPollCancelsOld ==
    [][\A p \in 1..MaxClicks :
          (p < started /\ CallbackOf(p)) =>
              /\ lastInj' = lastInj
              /\ activePoll' = activePoll
              /\ \A q \in 1..Len(polls) : polls'[q].running = polls[q].running]_vars

\* a step in which poll p injects its date
InjectsBy(p) == lastInj'.flip # lastInj.flip /\ lastInj'.poll = p

\* C15: a poll injects only in the callback of a read that returned a
\* non-empty value equal to the last non-empty value an earlier read of the
\* same poll returned; the callback of a read that returned no value injects
\* nothing.
C15_InjectsOnlyWhenStable ==
    [][\A p \in 1..MaxClicks :
          /\ InjectsBy(p) => (CallbackOf(p) /\ ReadResult # "" /\ polls[p].prev = ReadResult)
          /\ (CallbackOf(p) /\ ReadResult = "") => lastInj' = lastInj]_vars

\* a poll has injected after the picker changed between two of its reads
C15_Witness ==
    /\ lastInj.poll = 1
    /\ picker = polls[1].date
    /\ polls[1].out > 0
    /\ polls[1].prev = RestoredDate

\* the intervals still running
Running == {p \in 1..Len(polls) : polls[p].running}

\* C16: only the interval in activePoll runs; an injection clears it and
\* resets activePoll to null; every tick of a poll counts as an attempt, no
\* poll issues a read after its 30th tick and the 31st tick clears it and
\* resets activePoll to null, so that no poll ticks more than 31 times.
C16_PollTerminates ==
    /\ [](Running \subseteq {activePoll} /\ \A p \in Running : polls[p].attempts <= MaxAttempts)
    /\ [][\A p \in 1..MaxClicks :
             /\ InjectsBy(p) => (activePoll' = 0 /\ Running' = {})
             /\ (p \in 1..Len(polls) /\ polls'[p].out = polls[p].out + 1) =>
                    (polls'[p].attempts = polls[p].attempts + 1 /\ polls'[p].attempts <= MaxAttempts)
             /\ (p \in Running /\ polls'[p].attempts > MaxAttempts) => (activePoll' = 0 /\ Running' = {})]_vars

\* a poll gave up: its picker never stabilised in 30 reads
C16_Witness ==
    /\ polls # <<>>
    /\ polls[1].attempts = MaxAttempts + 1
    /\ ~polls[1].running
    /\ activePoll = 0
    /\ lastInj.poll = 0

\* C17: a restart sends at most 30 probes, a probe that succeeds stops the
\* polling, and once "Timed out" has been shown "Backend ready" is not shown
\* for that restart.
C17_RestartPollBounded ==
    /\ [](attempts <= MaxProbes)
    /\ [][(btnText' = "Backend ready" /\ btnText # "Backend ready") => (~pollRunning' /\ ~timedOut)]_vars

\* KCApp answered the last send of draft d with Status = 1
KcappAccepted(d) == Has(kcapp[d], "Status") /\ kcapp[d].Status = 1

\* C18: a post-send request is issued only in the step in which KCApp answers
\* with Status = 1; a send that ends without that answer issues none, leaves
\* the card in the panel and the Send button enabled with label "Send"; and
\* once a post-send request has settled, whatever its outcome, the card is gone.
C18_PostSendOnlyAfterAccept ==
    /\ [](\A d \in Drafts : (spc[d] = "done" => d \notin cards) /\ (postSends[d] > 0 => KcappAccepted(d)))
    /\ [][\A d \in Drafts :
             /\ postSends'[d] # postSends[d] => (KcappAccepted(d)' /\ spc[d] = "inject")
             /\ (spc[d] \in {"query", "inject"} /\ spc'[d] = "idle") =>
                    /\ ~KcappAccepted(d)'
                    /\ postSends'[d] = postSends[d]
                    /\ d \in cards'
                    /\ sendBtn'[d] = [disabled |-> FALSE, text |-> "Send"]
             /\ (spc[d] = "inject" /\ KcappAccepted(d)') => spc'[d] = "post"
             /\ (spc[d] = "post" /\ spc'[d] # "post") => (spc'[d] = "done" /\ d \notin cards')]_vars

\* one draft was refused by KCApp and is still in the panel, ready to be sent
\* again; the other was accepted and its card is gone
C18_Witness ==
    /\ Has(kcapp[1], "Status") /\ kcapp[1].Status = 0
    /\ spc[1] = "idle" /\ 1 \in cards /\ postSends[1] = 0
    /\ spc[2] = "done" /\ 2 \notin cards /\ postSends[2] = 1

\* the date of the conflict that key k was made for
ConflictDateOf(k) == (CHOOSE c \in AllConflicts : getConflictKey(c) = k).date

\* position of date d in ConflictDates
DayNumber(d) == CHOOSE i \in 1..Len(ConflictDates) : ConflictDates[i] = d

\* the entries of m for conflicts dated before today
PastKeys(m) == {k \in DOMAIN m : DayNumber(ConflictDateOf(k)) < DayNumber(today)}

\* loadAcknowledgedConflicts has completed
AcksLoaded == lpc \in {"fetching", "shown", "error"}

\* C19: once loadAcknowledgedConflicts has completed after a successful read,
\* the map holds the entries read that are not dated before today, each with
\* its timestamp, and storage was rewritten if and only if an entry was
\* dated before today; after a failed read the map is empty.
C19_MapIsStoredFromToday ==
    AcksLoaded =>
        IF loadEnd = "read failed" THEN DOMAIN acknowledgedConflicts = {}
        ELSE /\ DOMAIN acknowledgedConflicts = DOMAIN readMap \ PastKeys(readMap)
             /\ \A k \in DOMAIN acknowledgedConflicts : acknowledgedConflicts[k] = readMap[k]
             /\ (setCalls > 0) = (PastKeys(readMap) # {})
             /\ setCalls > 0 => stored = acknowledgedConflicts

\* the items of section s by position
Unacked(s, i) == s.items[i].key \notin DOMAIN acknowledgedConflicts

\* section s lists its unacknowledged conflicts first and keeps the order of
\* the response among conflicts of the same status
InOrder(s) ==
    \A i, j \in 1..Len(s.items) :
        i < j => /\ ~(Unacked(s, j) /\ ~Unacked(s, i))
                 /\ (Unacked(s, i) = Unacked(s, j)) => s.items[i].idx < s.items[j].idx

\* section s shows the conflicts of its groomer, each once
Complete(s) ==
    /\ {s.items[i].idx : i \in 1..Len(s.items)} =
           {n \in 1..Len(conflictsData) : conflictsData[n].groomer = s.groomer}
    /\ \A i \in 1..Len(s.items) : s.items[i].key = getConflictKey(conflictsData[s.items[i].idx])
    /\ \A i, j \in 1..Len(s.items) : i # j => s.items[i].idx # s.items[j].idx

\* C20: when displayConflicts has rendered, every groomer section holds the
\* conflicts of its groomer with every unacknowledged one before every
\* acknowledged one, and conflicts of the same status in the order of the
\* backend's response.
C20_UnackedFirstStable ==
    lpc = "shown" => \A g \in 1..Len(sections) : InOrder(sections[g]) /\ Complete(sections[g])

\* a section of three conflicts whose acknowledged one came first in the
\* response and is shown last
C20_Witness ==
    /\ lpc = "shown"
    /\ Len(sections) = 1
    /\ Len(sections[1].items) = 3
    /\ sections[1].items[3].idx = 1
    /\ sections[1].items[1].idx = 2
    /\ ~Unacked(sections[1], 3)
    /\ Unacked(sections[1], 1) /\ Unacked(sections[1], 2)

\* the times of sequence ts
TimesOf(ts) == {ts[i] : i \in 1..Len(ts)}

\* the days paged in that have a time to show
ShownDays ==
    {n \in 1..availabilityShownCount :
        TimesOf(availabilityAllDays[n].available_times) \ (IF include230 THEN {} ELSE {ReserveSlot}) # {}}

C21_CheckedWitness ==
    /\ include230
    /\ availView = "days"
    /\ \E i \in 1..Len(availCards) : ReserveSlot \in TimesOf(availCards[i].available)

\* the step is the onAlarm listener handling the daily reminder alarm
ReminderFiresStep ==
    /\ alarmGets' = alarmGets
    /\ scheduled' # scheduled

\* the reminder alarms chrome.alarms holds
ReminderAlarms == {a \in scheduled : a.name = PRINT_REMINDER_ALARM}

\* C22: the print-cards reminder fires only on business days: showPrintReminder
\* never opens the reminder window on Sunday or Monday; on Saturday it opens it
\* with nextDay = Tuesday and the window shows the "Next business day is
\* Tuesday" message; on Tuesday to Friday it opens it with nextDay = tomorrow
\* and the window shows the "tomorrow" message.
C22_ReminderOnBusinessDays ==
    /\ [][ReminderFiresStep =>
             LET day == DayOfWeek(clock, firstDay)
             IN  /\ day \in {0, 1} => winOpens' = winOpens
                 /\ day = 6 => winOpens' = Append(winOpens, [url |-> "reminder.html?nextDay=Tuesday", day |-> 6])
                 /\ day \in 2..5 => winOpens' = Append(winOpens, [url |-> "reminder.html?nextDay=tomorrow", day |-> day])]_vars
    /\ [](\A i \in 1..Len(reminderWindows) :
             LET w == reminderWindows[i]
             IN  /\ w.day \in 2..6
                 /\ w.day = 6 => w.url = "reminder.html?nextDay=Tuesday" /\ w.msg = TuesdayMessage
                 /\ w.day \in 2..5 => w.url = "reminder.html?nextDay=tomorrow" /\ w.msg = TomorrowMessage)

\* a Saturday window with the Tuesday message and a weekday window with the
\* tomorrow message
C22_Witness ==
    /\ Len(reminderWindows) = 2
    /\ reminderWindows[1].day = 5 /\ reminderWindows[1].msg = TomorrowMessage
    /\ reminderWindows[2].day = 6 /\ reminderWindows[2].msg = TuesdayMessage

\* the alarm has fired on a Sunday and no window was opened
C22_SundayWitness ==
    /\ DayOfWeek(clock, firstDay) = 0
    /\ \E a \in ReminderAlarms : a.when > TimeOf(clock) + 1
    /\ created # <<>> /\ \A i \in 1..Len(created) : created[i].when <= TimeOf(clock)
    /\ winOpens = <<>> /\ reminderWindows = <<>>

\* the 15:00 instants
ReminderInstants == {d * DayMs + ReminderHour : d \in 0..(MaxDaysElapsed + 1)}

\* C23: schedulePrintReminder creates the 'dailyPrintReminder' alarm only when
\* no alarm of that name exists, so repeated or overlapping calls never leave
\* more than one such alarm, and the time it schedules is the earliest 15:00
\* strictly later than now: today when now is before 15:00, tomorrow when now is
\* 15:00 or later.
C23_OneAlarmAtNextThree ==
    /\ \A i \in 1..Len(created) : created[i].held = {}
    /\ Cardinality(ReminderAlarms) <= 1
    /\ \A i \in 1..Len(created) :
          LET now == created[i].now
              when == created[i].when
          IN  /\ when \in ReminderInstants /\ when > TimeOf(now)
              /\ \A t \in ReminderInstants : t > TimeOf(now) => when <= t
              /\ when = IF now.t < ReminderHour THEN now.d * DayMs + ReminderHour
                        ELSE (now.d + 1) * DayMs + ReminderHour

\* what holds of every call: the alarm is created exactly when chrome.alarms.get
\* reported none, there is never more than one, and its time is the next 15:00
C23_CreatedWhenNoneReported ==
    /\ [][(alarmGets # <<>> /\ alarmGets' = Tail(alarmGets))
             => (created' # created <=> ~Head(alarmGets).existing)]_vars
    /\ [](Cardinality(ReminderAlarms) <= 1)
    /\ [](\A i \in 1..Len(created) :
             LET now == created[i].now
                 when == created[i].when
             IN  /\ when \in ReminderInstants /\ when > TimeOf(now)
                 /\ \A t \in ReminderInstants : t > TimeOf(now) => when <= t)

\* a call made while an alarm exists has created nothing
C23_RepeatedCallWitness ==
    /\ Len(created) = 1
    /\ alarmGets = <<[existing |-> TRUE]>>

\* the step is a toggle of an acknowledgement checkbox
ToggleStep == Len(ackSaves') > Len(ackSaves)

\* the displayed conflict items of section s whose key is not acknowledged
UnackedItems(s) == {i \in 1..Len(s.items) : s.items[i].key \notin DOMAIN acknowledgedConflicts}

\* the displayed conflict items, as <<section, position>>, whose key is not acknowledged
AllUnackedItems == {p \in (1..Len(sections)) \X (1..MaxShown + 1) :
                      p[2] <= Len(sections[p[1]].items) /\ p[2] \in UnackedItems(sections[p[1]])}

\* C24: when conflicts are displayed and every toggle has been handled, the
\* total badge shows the number of displayed items whose key is not in the
\* acknowledgement map, every section count is the number of such items in the
\* section, the total is the sum of the section counts and the badge reads
\* "All clear" exactly when that number is 0; a toggle changes the
\* acknowledgement of the toggled key only.
C24_CountsFollowMap ==
    /\ []((lpc = "shown" /\ sections # <<>> /\ ackSaves = <<>>) =>
            /\ totalBadge = ConflictBadgeText(Cardinality(AllUnackedItems))
            /\ \A g \in 1..Len(sections) : sections[g].count = Cardinality(UnackedItems(sections[g]))
            /\ totalBadge = ConflictBadgeText(SumCounts(sections))
            /\ (totalBadge = "All clear") = (Cardinality(AllUnackedItems) = 0))
    /\ [][ToggleStep =>
            LET k == ackSaves'[Len(ackSaves')].key
                t == ackSaves'[Len(ackSaves')]
            IN  /\ (k \in DOMAIN acknowledgedConflicts') = sections'[t.g].items[t.i].checked
                /\ \A x \in (DOMAIN acknowledgedConflicts \cup DOMAIN acknowledgedConflicts') \ {k} :
                      /\ x \in DOMAIN acknowledgedConflicts /\ x \in DOMAIN acknowledgedConflicts'
                      /\ acknowledgedConflicts'[x] = acknowledgedConflicts[x]]_vars

\* two conflicts of two groomers, one acknowledged by a toggle: one is left to review
C24_Witness ==
    /\ lpc = "shown" /\ ackSaves = <<>>
    /\ Len(sections) = 2
    /\ sections[1].count = 0 /\ sections[1].items[1].checked
    /\ sections[1].items[1].key \in DOMAIN acknowledgedConflicts
    /\ acknowledgedConflicts[sections[1].items[1].key] = AckNow
    /\ sections[2].count = 1
    /\ totalBadge = "1 conflict to review"

\* every displayed conflict was acknowledged, and one acknowledgement was taken back
C24_AllClearWitness ==
    /\ lpc = "shown" /\ ackSaves = <<>> /\ sections # <<>>
    /\ totalBadge = "All clear"
    /\ \E g \in 1..Len(sections) : \E i \in 1..Len(sections[g].items) :
          sections[g].items[i].acked /\ sections[g].items[i].checked

\* the values bk-time can send
NominalSlotTimes == {"08:30", "10:00", "11:30", "13:30", "14:30"}

\* C25: from one rendered booking form a /api/appt/book request is issued only
\* when pet, date, time and groomer are all set, with those values and a time
\* among 08:30, 10:00, 11:30, 13:30, 14:30; no second request is issued while
\* one is in flight; after a successful booking the Book button stays disabled
\* and no further request is issued; after a failed request the button is
\* enabled again.
C25_NoDuplicateBooking ==
    /\ [][bkRequests' > bkRequests =>
            /\ bkFetches = 0
            /\ bkBooked = 0
            /\ bkPet # "" /\ bkDate # "" /\ bkTime # "" /\ bkGroomer # ""
            /\ bkPet \in ValuesOf(bkPets)
            /\ bkGroomer \in ValuesOf(bkGroomers)
            /\ LET r == bkBody'
               IN  /\ ToString(r.pet_id) = bkPet /\ ToString(r.groomer_id) = bkGroomer
                   /\ r.date = bkDate /\ r.time = bkTime
                   /\ r.time \in NominalSlotTimes]_vars
    /\ [](bkFetches <= 1)
    /\ [](bkBooked > 0 => bkBtn.disabled /\ bkBooked = 1)
    /\ [][(bkFetches' < bkFetches /\ bkBooked' = bkBooked) => ~bkBtn'.disabled]_vars

\* a first request failed, the second one made the booking, and the button is
\* disabled for good
C25_Witness ==
    /\ bkRequests = 2
    /\ bkBody.time = "14:30"
    /\ bkFetches = 0
    /\ bkBooked = 1
    /\ bkBtn = [disabled |-> TRUE, text |-> "Done"]

\* a click on Book with no pet to choose sends nothing
C25_RefusedWitness ==
    /\ bkPets = <<>>
    /\ bkDate # "" /\ bkGroomer # ""
    /\ bkStatus = "Please fill in all fields."
    /\ bkRequests = 0

\* the positions of the waitlist shown in block c
CardItems(c) == {groupCards[c].items[n] : n \in 1..Len(groupCards[c].items)}

\* position of key in the fixed order kumi, tomoko, mandilyn, flexible
OrderOf(key) == CHOOSE k \in 1..4 : GroupKeys[k] = key

\* the label a group is shown under
LabelOf(key) == <<"Kumi", "Tomoko", "Mandilyn", "Any Groomer">>[OrderOf(key)]

\* the sum of the lengths of the blocks from c on
RECURSIVE CardSizes(_)
CardSizes(c) == IF c > Len(groupCards) THEN 0 ELSE Len(groupCards[c].items) + CardSizes(c + 1)

C26_OneGroupWitness ==
    /\ view = "list"
    /\ Len(groupCards) = 1
    /\ groupCards[1].items = <<1, 2>>
    /\ groupCards[1].count = "2 dogs"
    /\ waitlist[1] # waitlist[2]

====
